---- MODULE Spec2Model ----
(***************************************************************************)
(* Model of the page-granular memory manager of src/common/mman.c:         *)
(* oe_mman_init, oe_mman_sbrk, oe_mman_brk, oe_mman_map, oe_mman_unmap,    *)
(* oe_mman_remap, oe_mman_is_sane and oe_mman_set_sanity, over the struct  *)
(* oe_mman_t and the array of oe_vad_t descriptors it embeds at the low    *)
(* end of the managed range.                                               *)
(*                                                                         *)
(* Addresses and sizes are unsigned machine words: every uintptr_t/size_t  *)
(* operation is taken modulo WordMod, every store to the 32-bit size field *)
(* of a descriptor modulo 2^SizeBits. The widths are scaled down (WordBits,*)
(* SizeBits) so that the wrap-around cases are reachable by enumeration;   *)
(* the managed ranges are smaller than 2^SizeBits, as a heap below 4 GiB is*)
(* smaller than 2^32.                                                      *)
(*                                                                         *)
(* Descriptor pointers are indices into the descriptor array (the i-th     *)
(* oe_vad_t lives at base + (i-1) * SizeofVad); NULL is 0.                 *)
(***************************************************************************)
EXTENDS Integers, Sequences, FiniteSets, TLC

(***************************************************************************)
(* Program constants (openenclave/internal/mman.h and friends are not part *)
(* of src/; the values are the ones the tests and the spec use).           *)
(***************************************************************************)
OE_PAGE_SIZE == 4096
SizeofVad == 32
OE_HEAP_MAGIC == "OE_HEAP_MAGIC"
NULL == 0

OE_PROT_READ == "READ"
OE_PROT_WRITE == "WRITE"
OE_PROT_EXEC == "EXEC"
OE_MAP_SHARED == "SHARED"
OE_MAP_PRIVATE == "PRIVATE"
OE_MAP_FIXED == "FIXED"
OE_MAP_ANONYMOUS == "ANONYMOUS"
OE_MREMAP_MAYMOVE == "MAYMOVE"

(***************************************************************************)
(* Bounds of the model.                                                    *)
(***************************************************************************)
\* width of uintptr_t / size_t / ptrdiff_t in the model
WordBits == 20
\* width of the size field of oe_vad_t in the model
SizeBits == 17
\* largest managed range handed to oe_mman_init, in pages
MaxPages == 4
\* calls explored after a call whose length argument wraps the word
MaxAfterWrap == 1
\* sbrk is offered byte (non page multiple) increments while brk is less
\* than this many bytes above a page boundary
MaxBrkOffset == 1

\* the regions the gap-reuse scenario of TestHeap1 maps: region i has
\* i + 1 pages
TestRegions == 4

\* the pages of the heap of that scenario: as many as its regions take
TestPages == (TestRegions * (TestRegions + 1)) \div 2

WordMod == 2 ^ WordBits

\* the page-aligned base address handed to oe_mman_init by a well-behaved caller
GoodBase == 16 * OE_PAGE_SIZE

(***************************************************************************)
(* Machine arithmetic.                                                     *)
(***************************************************************************)
\* a value stored into a uintptr_t or size_t
Word(x) == x % WordMod

\* a value stored into the uint32_t size field of a descriptor
Size32(x) == x % (2 ^ SizeBits)

\* (x + m - 1) / m * m in size_t arithmetic
oe_round_up_to_multiple(x, m) == Word((Word(x + m - 1) \div m) * m)

\* an uninitialised (never used) descriptor slot; every field is written
\* (by _mman_new_vad and _list_insert_after) before it is read
BlankVad == [next |-> NULL, prev |-> NULL, addr |-> 0, size |-> 0,
             prot |-> {}, flags |-> {}]

(***************************************************************************)
(* Local utility functions.                                                *)
(***************************************************************************)
\* Get the end address of a VAD
_end(mman, vad) == Word(mman.vads[vad].addr + mman.vads[vad].size)

\* Get the size of the gap to the right of this VAD
_get_right_gap(mman, vad) ==
    IF mman.vads[vad].next # NULL
    THEN Word(mman.vads[mman.vads[vad].next].addr - _end(mman, vad))
    ELSE Word(mman.end - _end(mman, vad))

(***************************************************************************)
(* _FreeList functions.                                                    *)
(***************************************************************************)
\* Get a VAD from the free list, else from the never-used part of the array
_free_list_get(mman) ==
    IF mman.free_vads # NULL
    THEN [mman |-> [mman EXCEPT !.free_vads = mman.vads[mman.free_vads].next],
          vad |-> mman.free_vads]
    ELSE IF mman.next_vad # mman.end_vad
    THEN [mman |-> [mman EXCEPT !.next_vad = @ + 1,
                                !.vads = Append(@, BlankVad)],
          vad |-> mman.next_vad]
    ELSE [mman |-> mman, vad |-> NULL]

\* _free_list_put that clears the VAD and drops it without linking it
FreeListPutDrops(mman, vad) ==
    [mman EXCEPT !.vads[vad].addr = 0,
                 !.vads[vad].size = 0,
                 !.vads[vad].prot = {},
                 !.vads[vad].flags = {}]

\* Return a free oe_vad_t to the free list
_free_list_put(mman, vad) ==
    [mman EXCEPT !.vads[vad].addr = 0,
                 !.vads[vad].size = 0,
                 !.vads[vad].prot = {},
                 !.vads[vad].flags = {},
                 !.vads[vad].next = mman.free_vads,
                 !.free_vads = vad]

(***************************************************************************)
(* _List functions.                                                        *)
(***************************************************************************)
\* Insert VAD after PREV in the linked list
_list_insert_after(mman, prev, vad) ==
    IF prev # NULL
    THEN LET pn == mman.vads[prev].next
             m1 == [mman EXCEPT !.vads[vad].prev = prev,
                                !.vads[vad].next = pn]
             m2 == IF pn # NULL
                   THEN [m1 EXCEPT !.vads[pn].prev = vad]
                   ELSE m1
         IN  [m2 EXCEPT !.vads[prev].next = vad]
    ELSE LET hd == mman.vad_list
             m1 == [mman EXCEPT !.vads[vad].prev = NULL,
                                !.vads[vad].next = hd]
             m2 == IF hd # NULL
                   THEN [m1 EXCEPT !.vads[hd].prev = vad]
                   ELSE m1
         IN  [m2 EXCEPT !.vad_list = vad]

\* _list_remove that leaves the prev pointer of the successor as it was
ListRemoveStalePrev(mman, vad) ==
    LET n == mman.vads[vad].next
        p == mman.vads[vad].prev
    IN  IF vad = mman.vad_list
        THEN [mman EXCEPT !.vad_list = n]
        ELSE IF p # NULL
             THEN [mman EXCEPT !.vads[p].next = n]
             ELSE mman

\* Remove VAD from the doubly-linked list
_list_remove(mman, vad) ==
    LET n == mman.vads[vad].next
        p == mman.vads[vad].prev
    IN  IF vad = mman.vad_list
        THEN LET m1 == [mman EXCEPT !.vad_list = n]
             IN  IF n # NULL THEN [m1 EXCEPT !.vads[n].prev = NULL] ELSE m1
        ELSE LET m1 == IF p # NULL
                       THEN [mman EXCEPT !.vads[p].next = n]
                       ELSE mman
             IN  IF n # NULL THEN [m1 EXCEPT !.vads[n].prev = p] ELSE m1

\* the loop of _list_find from descriptor p on
RECURSIVE ListFindFrom(_, _, _)
ListFindFrom(mman, p, addr) ==
    IF p = NULL THEN NULL
    ELSE IF addr >= mman.vads[p].addr /\ addr < _end(mman, p) THEN p
    ELSE ListFindFrom(mman, mman.vads[p].next, addr)

\* Find a VAD that contains the given address
_list_find(mman, addr) == ListFindFrom(mman, mman.vad_list, addr)

(***************************************************************************)
(* oe_mman_is_sane                                                         *)
(***************************************************************************)
\* the loop "Verify that the list is sorted" from descriptor p on: the
\* error message of the first failing check, "" when there is none
RECURSIVE SortedFrom(_, _)
SortedFrom(mman, p) ==
    IF p = NULL THEN ""
    ELSE LET next == mman.vads[p].next IN
         IF next = NULL THEN ""
         ELSE IF ~(mman.vads[p].addr < mman.vads[next].addr)
              THEN "unordered VAD list (1)"
         ELSE IF _end(mman, p) = mman.vads[next].addr
              THEN "contiguous VAD list elements"
         ELSE IF ~(_end(mman, p) <= mman.vads[next].addr)
              THEN "unordered VAD list (2)"
         ELSE SortedFrom(mman, next)

\* the error message oe_mman_is_sane leaves: "" exactly when it returns true
SaneErr(mman) ==
    IF mman.magic # OE_HEAP_MAGIC THEN "bad magic"
    ELSE IF mman.initialized = 0 THEN "uninitialized"
    ELSE IF ~(mman.start < mman.end) THEN "start not less than end"
    ELSE IF mman.size # Word(mman.end - mman.base) THEN "invalid size"
    ELSE IF ~(mman.start <= mman.brk) THEN "!(mman->start <= mman->brk)"
    ELSE IF ~(mman.map <= mman.end) THEN "!(mman->map <= mman->end)"
    ELSE IF mman.vad_list # NULL /\ mman.map # mman.vads[mman.vad_list].addr
         THEN "mman->map != mman->vad_list->addr"
    ELSE IF mman.vad_list = NULL /\ mman.map # mman.end
         THEN "mman->map != mman->end"
    ELSE SortedFrom(mman, mman.vad_list)

\* the result of oe_mman_is_sane and the manager with the error string it
\* leaves, given that string
SaneResult(mman, e) == [ok |-> e = "", mman |-> [mman EXCEPT !.err = e]]

\* oe_mman_is_sane that finds every manager sane
SaneAlways(mman) == SaneResult(mman, "")

\* oe_mman_is_sane: true iff no check fails; the error string is cleared
\* and then set by the first failing check
oe_mman_is_sane(mman) == SaneResult(mman, SaneErr(mman))

\* Inline helper function to check heap sanity (if enabled)
_mman_is_sane(mman) ==
    IF mman.sanity THEN oe_mman_is_sane(mman) ELSE [ok |-> TRUE, mman |-> mman]

(***************************************************************************)
(* mman helper functions.                                                  *)
(***************************************************************************)
_mman_clear_err(mman) == [mman EXCEPT !.err = ""]

\* _mman_set_err that leaves the error string as it is
SetErrNothing(mman, str) == mman

\* Set the heap error message
_mman_set_err(mman, str) == [mman EXCEPT !.err = str]

\* _mman_new_vad once _free_list_get returned g
NewVadInit(g, addr, size, prot, flags) ==
    IF g.vad = NULL THEN g
    ELSE [mman |-> [g.mman EXCEPT !.vads[g.vad].addr = addr,
                                  !.vads[g.vad].size = Size32(size),
                                  !.vads[g.vad].prot = prot,
                                  !.vads[g.vad].flags = flags],
          vad |-> g.vad]

\* Allocate and initialize a new VAD
_mman_new_vad(mman, addr, size, prot, flags) ==
    NewVadInit(_free_list_get(mman), addr, size, prot, flags)

\* _mman_sync_top that leaves MAP where it was
SyncTopStale(mman) == mman

\* Synchronize the MAP value to the address of the first list element
_mman_sync_top(mman) ==
    IF mman.vad_list # NULL
    THEN [mman EXCEPT !.map = mman.vads[mman.vad_list].addr]
    ELSE [mman EXCEPT !.map = mman.end]

(***************************************************************************)
(* oe_mman_init                                                            *)
(***************************************************************************)
\* the oe_mman_t object before oe_mman_init has run on it
ZeroMman == [base |-> 0, size |-> 0, start |-> 0, end |-> 0, brk |-> 0,
             map |-> 0, next_vad |-> NULL, end_vad |-> NULL,
             free_vads |-> NULL, vad_list |-> NULL, sanity |-> FALSE,
             scrub |-> FALSE, magic |-> "", initialized |-> 0, err |-> "",
             vads |-> << >>, mem |-> << >>, guard |-> TRUE]

\* the fields oe_mman_init sets after "Clear the heap object"; the pages
\* of [start, end) hold whatever the caller's memory held ("UU"), and
\* guard tells whether the pages that follow end are inaccessible
InitFields(base, size, start) ==
    [ZeroMman EXCEPT
       !.base = base,
       !.size = size,
       !.start = start,
       !.end = Word(base + size),
       !.brk = start,
       !.map = Word(base + size),
       !.next_vad = 1,
       !.end_vad = 1 + ((start - base) \div SizeofVad),
       !.free_vads = NULL,
       !.vad_list = NULL,
       !.sanity = FALSE,
       !.magic = OE_HEAP_MAGIC,
       !.initialized = 1,
       !.mem = [i \in 1 .. ((Word(base + size) - start) \div OE_PAGE_SIZE)
                  |-> "UU"]]

\* oe_mman_init after the fields are set: "Check sanity of heap"
InitExit(s) ==
    IF ~s.ok THEN [mman |-> s.mman, result |-> "OE_UNEXPECTED"]
    ELSE [mman |-> s.mman, result |-> "OE_OK"]

\* oe_mman_init without "Round start up to next page multiple"
InitStartUnrounded(mman, base, size) ==
    IF base = 0 \/ size = 0
    THEN [mman |-> _mman_set_err(_mman_clear_err(mman), "bad parameter"),
          result |-> "OE_INVALID_PARAMETER"]
    ELSE IF base % OE_PAGE_SIZE # 0
    THEN [mman |-> _mman_set_err(_mman_clear_err(mman),
                                 "bad base parameter"),
          result |-> "OE_INVALID_PARAMETER"]
    ELSE IF size % OE_PAGE_SIZE # 0
    THEN [mman |-> _mman_set_err(_mman_clear_err(mman),
                                 "bad size parameter"),
          result |-> "OE_INVALID_PARAMETER"]
    ELSE InitExit(
             _mman_is_sane(
                 InitFields(base, size,
                     Word(base + Word((size \div OE_PAGE_SIZE)
                                      * SizeofVad)))))

oe_mman_init(mman, base, size) ==
    IF base = 0 \/ size = 0
    THEN [mman |-> _mman_set_err(_mman_clear_err(mman), "bad parameter"),
          result |-> "OE_INVALID_PARAMETER"]
    ELSE IF base % OE_PAGE_SIZE # 0
    THEN [mman |-> _mman_set_err(_mman_clear_err(mman),
                                 "bad base parameter"),
          result |-> "OE_INVALID_PARAMETER"]
    ELSE IF size % OE_PAGE_SIZE # 0
    THEN [mman |-> _mman_set_err(_mman_clear_err(mman),
                                 "bad size parameter"),
          result |-> "OE_INVALID_PARAMETER"]
    ELSE InitExit(
             _mman_is_sane(
                 InitFields(base, size,
                     oe_round_up_to_multiple(
                         Word(base + Word((size \div OE_PAGE_SIZE)
                                          * SizeofVad)),
                         OE_PAGE_SIZE))))

(***************************************************************************)
(* oe_mman_sbrk                                                            *)
(***************************************************************************)
\* oe_mman_sbrk after the increment is applied: the exit sanity check s1
SbrkExit(s1, ptr) ==
    IF ~s1.ok THEN [mman |-> s1.mman, result |-> NULL]
    ELSE [mman |-> s1.mman, result |-> ptr]

\* oe_mman_sbrk that zero-fills the break memory it hands out
SbrkZeroFills(s0, increment) ==
    IF ~s0.ok THEN [mman |-> s0.mman, result |-> NULL]
    ELSE IF increment = 0
    THEN SbrkExit(_mman_is_sane(s0.mman), s0.mman.brk)
    ELSE IF Word(increment) <= Word(s0.mman.map - s0.mman.brk)
    THEN SbrkExit(_mman_is_sane(
                      [s0.mman EXCEPT
                         !.brk = Word(@ + Word(increment)),
                         !.mem = [i \in 1 .. Len(s0.mman.mem) |->
                                    IF s0.mman.brk
                                         <= s0.mman.start
                                            + (i - 1) * OE_PAGE_SIZE
                                       /\ s0.mman.start
                                            + (i - 1) * OE_PAGE_SIZE
                                          < s0.mman.brk + increment
                                    THEN "00"
                                    ELSE s0.mman.mem[i]]]),
                  s0.mman.brk)
    ELSE [mman |-> _mman_set_err(s0.mman, "out of memory"),
          result |-> NULL]

\* oe_mman_sbrk after the entry sanity check s0
SbrkChecked(s0, increment) ==
    IF ~s0.ok THEN [mman |-> s0.mman, result |-> NULL]
    ELSE IF increment = 0
    THEN SbrkExit(_mman_is_sane(s0.mman), s0.mman.brk)
    ELSE IF Word(increment) <= Word(s0.mman.map - s0.mman.brk)
    THEN SbrkExit(_mman_is_sane([s0.mman EXCEPT
                                   !.brk = Word(@ + Word(increment))]),
                  s0.mman.brk)
    ELSE [mman |-> _mman_set_err(s0.mman, "out of memory"),
          result |-> NULL]

oe_mman_sbrk(mman, increment) ==
    SbrkChecked(_mman_is_sane(_mman_clear_err(mman)), increment)

(***************************************************************************)
(* oe_mman_brk                                                             *)
(***************************************************************************)
\* oe_mman_brk after the break value is set: the exit sanity check s1
BrkExit(s1) ==
    IF ~s1.ok THEN [mman |-> s1.mman, result |-> "OE_FAILURE"]
    ELSE [mman |-> s1.mman, result |-> "OE_OK"]

oe_mman_brk(mman, addr) ==
    IF addr < mman.start \/ addr >= mman.map
    THEN [mman |-> _mman_set_err(_mman_clear_err(mman),
                                 "address is out of range"),
          result |-> "OE_INVALID_PARAMETER"]
    ELSE BrkExit(_mman_is_sane([_mman_clear_err(mman) EXCEPT !.brk = addr]))

\* oe_mman_set_sanity
oe_mman_set_sanity(mman, sanity) == [mman EXCEPT !.sanity = sanity]

(***************************************************************************)
(* Memory accesses.                                                        *)
(***************************************************************************)
\* memset/memcpy over [addr, addr + len) faults.  The code leaves the
\* memory the caller handed to oe_mman_init only through wrapped address
\* arithmetic.  A range that runs over the top of the address space or
\* into page 0 always faults; a range above end faults when the pages
\* that follow the heap are inaccessible (guard) and otherwise reaches
\* memory that is not the manager's.
Faults(mman, addr, len) ==
    /\ len # 0
    /\ \/ addr < OE_PAGE_SIZE
       \/ addr + len > WordMod
       \/ mman.guard /\ (addr < mman.base \/ addr + len > mman.end)

\* the address of the i-th page of [start, end), whose contents mem[i] are
\* "UU" (never written), "00" (zero filled), "DD" (scrubbed) or the name
\* of the data the caller wrote
PageAt(mman, i) == mman.start + (i - 1) * OE_PAGE_SIZE

\* memset that fills every page of [start, end)
MemSetAll(mman, addr, len, val) ==
    [mman EXCEPT !.mem = [i \in 1 .. Len(mman.mem) |-> val]]

\* memset(addr, val, len) for a page-aligned addr and a page-multiple len
MemSet(mman, addr, len, val) ==
    [mman EXCEPT !.mem =
        [i \in 1 .. Len(mman.mem) |->
            IF addr <= PageAt(mman, i) /\ PageAt(mman, i) < addr + len
            THEN val
            ELSE mman.mem[i]]]

\* memcpy(dst, src, len) for page-aligned addresses and a page-multiple len
MemCpy(mman, dst, src, len) ==
    [mman EXCEPT !.mem =
        [i \in 1 .. Len(mman.mem) |->
            IF dst <= PageAt(mman, i) /\ PageAt(mman, i) < dst + len
            THEN IF i + ((src - dst) \div OE_PAGE_SIZE)
                        \in 1 .. Len(mman.mem)
                 THEN mman.mem[i + ((src - dst) \div OE_PAGE_SIZE)]
                 ELSE "UU"
            ELSE mman.mem[i]]]

(***************************************************************************)
(* _mman_find_gap                                                          *)
(***************************************************************************)
NoGap == [found |-> FALSE, addr |-> 0, left |-> NULL, right |-> NULL]

\* the loop "Search for gaps between HEAD and TAIL" from descriptor p on
RECURSIVE GapFrom(_, _, _)
GapFrom(mman, p, size) ==
    IF p = NULL THEN NoGap
    ELSE IF _get_right_gap(mman, p) >= size
    THEN [found |-> TRUE, addr |-> _end(mman, p), left |-> p,
          right |-> mman.vads[p].next]
    ELSE GapFrom(mman, mman.vads[p].next, size)

\* the top span of _mman_find_gap refusing a request that takes all the
\* bytes between brk and map
TopGapStrict(mman, size) ==
    IF ~(mman.brk < Word(mman.map - size))
    THEN [mman |-> mman, addr |-> 0, left |-> NULL, right |-> NULL]
    ELSE [mman |-> mman, addr |-> Word(mman.map - size), left |-> NULL,
          right |-> mman.vad_list]

\* "No gaps in linked list so obtain memory from mapped memory area"
TopGap(mman, size) ==
    IF ~(mman.brk <= Word(mman.map - size))
    THEN [mman |-> mman, addr |-> 0, left |-> NULL, right |-> NULL]
    ELSE [mman |-> mman, addr |-> Word(mman.map - size), left |-> NULL,
          right |-> mman.vad_list]

\* _mman_find_gap after the list was searched, taking the memory from the
\* mapped memory area whether or not the list has a gap
FindGapAtTopOnly(mman, g, size) == TopGap(mman, size)

\* _mman_find_gap after the list was searched: g is the gap found in it
FindGapIn(mman, g, size) ==
    IF g.found
    THEN [mman |-> mman, addr |-> g.addr, left |-> g.left,
          right |-> g.right]
    ELSE TopGap(mman, size)

\* _mman_find_gap after its sanity check s
FindGapChecked(s, size) ==
    IF ~s.ok
    THEN [mman |-> s.mman, addr |-> 0, left |-> NULL, right |-> NULL]
    ELSE FindGapIn(s.mman, GapFrom(s.mman, s.mman.vad_list, size), size)

_mman_find_gap(mman, size) == FindGapChecked(_mman_is_sane(mman), size)

(***************************************************************************)
(* oe_mman_map                                                             *)
(***************************************************************************)
\* "Round LENGTH to multiple of page size"
MapRoundLength(length) ==
    Word((Word(length + OE_PAGE_SIZE - 1) \div OE_PAGE_SIZE) * OE_PAGE_SIZE)

\* the parameter checks of oe_mman_map without the final check that the
\* address hint is null
MapParamAcceptsHint(addr, length, prot, flags) ==
    IF addr # NULL /\ addr % OE_PAGE_SIZE # 0 THEN "bad addr parameter"
    ELSE IF length = 0 THEN "bad length parameter"
    ELSE IF OE_PROT_READ \notin prot
         THEN "bad prot parameter: need OE_PROT_READ"
    ELSE IF OE_PROT_WRITE \notin prot
         THEN "bad prot parameter: need OE_PROT_WRITE"
    ELSE IF OE_PROT_EXEC \in prot
         THEN "bad prot parameter: remove OE_PROT_EXEC"
    ELSE IF OE_MAP_ANONYMOUS \notin flags
         THEN "bad flags parameter: need OE_MAP_ANONYMOUS"
    ELSE IF OE_MAP_PRIVATE \notin flags
         THEN "bad flags parameter: need OE_MAP_PRIVATE"
    ELSE IF OE_MAP_SHARED \in flags
         THEN "bad flags parameter: remove OE_MAP_SHARED"
    ELSE IF OE_MAP_FIXED \in flags
         THEN "bad flags parameter: remove OE_MAP_FIXED"
    ELSE ""

\* the message of the first failing parameter check of oe_mman_map, "" when
\* all pass
MapParamErr(addr, length, prot, flags) ==
    IF addr # NULL /\ addr % OE_PAGE_SIZE # 0 THEN "bad addr parameter"
    ELSE IF length = 0 THEN "bad length parameter"
    ELSE IF OE_PROT_READ \notin prot
         THEN "bad prot parameter: need OE_PROT_READ"
    ELSE IF OE_PROT_WRITE \notin prot
         THEN "bad prot parameter: need OE_PROT_WRITE"
    ELSE IF OE_PROT_EXEC \in prot
         THEN "bad prot parameter: remove OE_PROT_EXEC"
    ELSE IF OE_MAP_ANONYMOUS \notin flags
         THEN "bad flags parameter: need OE_MAP_ANONYMOUS"
    ELSE IF OE_MAP_PRIVATE \notin flags
         THEN "bad flags parameter: need OE_MAP_PRIVATE"
    ELSE IF OE_MAP_SHARED \in flags
         THEN "bad flags parameter: remove OE_MAP_SHARED"
    ELSE IF OE_MAP_FIXED \in flags
         THEN "bad flags parameter: remove OE_MAP_FIXED"
    ELSE IF addr # NULL THEN "bad addr parameter: must be null"
    ELSE ""

\* "Coalesce with RIGHT neighbor (and release right neighbor)": mman has
\* LEFT already grown by length
MapCoalesceBoth(mman, left, right) ==
    _free_list_put(
        [_list_remove(mman, right) EXCEPT
           !.vads[left].size = Size32(@ + mman.vads[right].size)],
        right)

\* "Create a new VAD and insert it into the list": n is what _mman_new_vad
\* returned
MapInsert(n, left) ==
    IF n.vad = NULL
    THEN [mman |-> _mman_set_err(n.mman, "unexpected: list insert failed"),
          ok |-> FALSE]
    ELSE [mman |-> _mman_sync_top(_list_insert_after(n.mman, left, n.vad)),
          ok |-> TRUE]

\* the placement that inserts a new VAD whatever the neighbours are
MapPlaceAlwaysInserts(mman, start, length, left, right, prot, flags) ==
    MapInsert(_mman_new_vad(mman, start, length, prot, flags), left)

\* the placement of [start, start + length) once a gap is found: coalesce
\* with LEFT, with LEFT and RIGHT, with RIGHT, or insert a new VAD
MapPlace(mman, start, length, left, right, prot, flags) ==
    IF left # NULL /\ _end(mman, left) = start
    THEN IF right # NULL /\ Word(start + length) = mman.vads[right].addr
         THEN [mman |-> MapCoalesceBoth(
                            [mman EXCEPT
                               !.vads[left].size = Size32(@ + length)],
                            left, right),
               ok |-> TRUE]
         ELSE [mman |-> [mman EXCEPT
                           !.vads[left].size = Size32(@ + length)],
               ok |-> TRUE]
    ELSE IF right # NULL /\ Word(start + length) = mman.vads[right].addr
    THEN [mman |-> _mman_sync_top(
                       [mman EXCEPT
                          !.vads[right].addr = start,
                          !.vads[right].size = Size32(@ + length)]),
          ok |-> TRUE]
    ELSE MapInsert(_mman_new_vad(mman, start, length, prot, flags), left)

\* oe_mman_map after the zero fill: the exit sanity check s1
MapExit(s1, start) ==
    IF ~s1.ok THEN [mman |-> s1.mman, result |-> NULL, fault |-> FALSE]
    ELSE [mman |-> s1.mman, result |-> start, fault |-> FALSE]

\* oe_mman_map that hands out the pages without the zero fill
MapNoZeroFill(pl, start, length) ==
    IF ~pl.ok THEN [mman |-> pl.mman, result |-> NULL, fault |-> FALSE]
    ELSE IF Faults(pl.mman, start, length)
    THEN [mman |-> pl.mman, result |-> NULL, fault |-> TRUE]
    ELSE MapExit(_mman_is_sane(pl.mman), start)

\* oe_mman_map after the placement pl: "Zero-fill mapped memory"
MapPlaced(pl, start, length) ==
    IF ~pl.ok THEN [mman |-> pl.mman, result |-> NULL, fault |-> FALSE]
    ELSE IF Faults(pl.mman, start, length)
    THEN [mman |-> pl.mman, result |-> NULL, fault |-> TRUE]
    ELSE MapExit(_mman_is_sane(MemSet(pl.mman, start, length, "00")), start)

\* oe_mman_map after _mman_find_gap returned g for the rounded length
MapFound(g, length, prot, flags) ==
    IF g.addr = 0
    THEN [mman |-> _mman_set_err(g.mman, "out of memory"), result |-> NULL,
          fault |-> FALSE]
    ELSE MapPlaced(MapPlace(g.mman, g.addr, length, g.left, g.right, prot,
                            flags),
                   g.addr, length)

\* oe_mman_map after the entry sanity check s0
MapChecked(s0, addr, length, prot, flags) ==
    IF ~s0.ok THEN [mman |-> s0.mman, result |-> NULL, fault |-> FALSE]
    ELSE IF MapParamErr(addr, length, prot, flags) # ""
    THEN [mman |-> _mman_set_err(s0.mman,
                                 MapParamErr(addr, length, prot, flags)),
          result |-> NULL, fault |-> FALSE]
    ELSE MapFound(_mman_find_gap(s0.mman, MapRoundLength(length)),
                  MapRoundLength(length), prot, flags)

oe_mman_map(mman, addr, length, prot, flags) ==
    IF mman.magic # OE_HEAP_MAGIC
    THEN [mman |-> _mman_set_err(_mman_clear_err(mman), "bad parameter"),
          result |-> NULL, fault |-> FALSE]
    ELSE MapChecked(_mman_is_sane(_mman_clear_err(mman)), addr, length,
                    prot, flags)

(***************************************************************************)
(* oe_mman_unmap                                                           *)
(***************************************************************************)
\* Case4: n is what _mman_new_vad returned for the excess right portion
UnmapSplit(n, vad) ==
    IF n.vad = NULL
    THEN [mman |-> _mman_set_err(n.mman, "out of VADs"), ok |-> FALSE]
    ELSE [mman |-> _mman_sync_top(_list_insert_after(n.mman, vad, n.vad)),
          ok |-> TRUE]

\* the four cases of oe_mman_unmap on the VAD that contains start
UnmapCases(mman, vad, start, end, length) ==
    IF mman.vads[vad].addr = start /\ _end(mman, vad) = end
    THEN \* Case1: [uuuuuuuuuuuuuuuu]
         [mman |-> _free_list_put(_mman_sync_top(_list_remove(mman, vad)),
                                  vad),
          ok |-> TRUE]
    ELSE IF mman.vads[vad].addr = start
    THEN \* Case2: [uuuu............]
         [mman |-> _mman_sync_top(
                       [mman EXCEPT !.vads[vad].addr = Word(@ + length),
                                    !.vads[vad].size = Size32(@ - length)]),
          ok |-> TRUE]
    ELSE IF _end(mman, vad) = end
    THEN \* Case3: [............uuuu]
         [mman |-> [mman EXCEPT !.vads[vad].size = Size32(@ - length)],
          ok |-> TRUE]
    ELSE \* Case4: [....uuuu........]
         UnmapSplit(
             _mman_new_vad(
                 [mman EXCEPT !.vads[vad].size =
                                 Size32(start - mman.vads[vad].addr)],
                 end, Word(_end(mman, vad) - end),
                 mman.vads[vad].prot, mman.vads[vad].flags),
             vad)

\* oe_mman_unmap after the scrub: the exit sanity check s1
UnmapExit(s1) ==
    IF ~s1.ok
    THEN [mman |-> s1.mman, result |-> "OE_UNEXPECTED", fault |-> FALSE]
    ELSE [mman |-> s1.mman, result |-> "OE_OK", fault |-> FALSE]

\* oe_mman_unmap after the list was changed (uc): "If scrubbing is
\* enabled, then scrub the unmapped memory"
UnmapDone(uc, addr, length) ==
    IF ~uc.ok
    THEN [mman |-> uc.mman, result |-> "OE_FAILURE", fault |-> FALSE]
    ELSE IF uc.mman.scrub /\ Faults(uc.mman, addr, length)
    THEN [mman |-> uc.mman, result |-> "OE_FAILURE", fault |-> TRUE]
    ELSE IF uc.mman.scrub
    THEN UnmapExit(_mman_is_sane(MemSet(uc.mman, addr, length, "DD")))
    ELSE UnmapExit(_mman_is_sane(uc.mman))

\* oe_mman_unmap once _list_find returned vad for the address
UnmapFound(mman, vad, addr, length) ==
    IF vad = NULL
    THEN [mman |-> _mman_set_err(mman, "address not found"),
          result |-> "OE_INVALID_PARAMETER", fault |-> FALSE]
    ELSE IF Word(addr + length) > _end(mman, vad)
    THEN [mman |-> _mman_set_err(mman, "illegal range"),
          result |-> "OE_INVALID_PARAMETER", fault |-> FALSE]
    ELSE UnmapDone(UnmapCases(mman, vad, addr, Word(addr + length), length),
                   addr, length)

\* oe_mman_unmap after the entry sanity check s0
UnmapChecked(s0, addr, length) ==
    IF ~s0.ok
    THEN [mman |-> s0.mman, result |-> "OE_INVALID_PARAMETER",
          fault |-> FALSE]
    ELSE IF addr % OE_PAGE_SIZE # 0
    THEN [mman |-> _mman_set_err(s0.mman, "bad addr parameter"),
          result |-> "OE_INVALID_PARAMETER", fault |-> FALSE]
    ELSE IF length % OE_PAGE_SIZE # 0
    THEN [mman |-> _mman_set_err(s0.mman, "bad length parameter"),
          result |-> "OE_INVALID_PARAMETER", fault |-> FALSE]
    ELSE UnmapFound(s0.mman, _list_find(s0.mman, addr), addr, length)

oe_mman_unmap(mman, addr, length) ==
    IF mman.magic # OE_HEAP_MAGIC \/ addr = NULL \/ length = 0
    THEN [mman |-> _mman_set_err(_mman_clear_err(mman), "bad parameter"),
          result |-> "OE_INVALID_PARAMETER", fault |-> FALSE]
    ELSE UnmapChecked(_mman_is_sane(_mman_clear_err(mman)), addr, length)

(***************************************************************************)
(* oe_mman_remap                                                           *)
(***************************************************************************)
\* the message of the first failing parameter check of oe_mman_remap, ""
\* when all pass
RemapParamErr(addr, old_size, new_size, flags) ==
    IF addr % OE_PAGE_SIZE # 0
    THEN "bad addr parameter: must be multiple of page size"
    ELSE IF old_size = 0
    THEN "invalid old_size parameter: must be non-zero"
    ELSE IF new_size = 0
    THEN "invalid old_size parameter: must be non-zero"
    ELSE IF flags # {OE_MREMAP_MAYMOVE}
    THEN "invalid flags parameter: must be OE_MREMAP_MAYMOVE"
    ELSE ""

\* the end of the shrinking case: set the size of the VAD, scrub the tail
RemapShrinkTail(mman, vad, addr, old_size, new_size) ==
    IF mman.scrub /\ Faults(mman, Word(addr + new_size),
                            Word(old_size - new_size))
    THEN [mman |-> [mman EXCEPT !.vads[vad].size =
                                   Size32(Word(addr + new_size)
                                          - mman.vads[vad].addr)],
          new_addr |-> NULL, ok |-> FALSE, fault |-> TRUE]
    ELSE IF mman.scrub
    THEN [mman |-> MemSet([mman EXCEPT !.vads[vad].size =
                                          Size32(Word(addr + new_size)
                                                 - mman.vads[vad].addr)],
                          Word(addr + new_size), Word(old_size - new_size),
                          "DD"),
          new_addr |-> addr, ok |-> TRUE, fault |-> FALSE]
    ELSE [mman |-> [mman EXCEPT !.vads[vad].size =
                                   Size32(Word(addr + new_size)
                                          - mman.vads[vad].addr)],
          new_addr |-> addr, ok |-> TRUE, fault |-> FALSE]

\* "Create VAD for rightward excess": n is what _mman_new_vad returned
RemapShrinkSplit(n, vad, addr, old_size, new_size) ==
    IF n.vad = NULL
    THEN [mman |-> _mman_set_err(n.mman, "out of VADs"),
          new_addr |-> NULL, ok |-> FALSE, fault |-> FALSE]
    ELSE RemapShrinkTail(
             _mman_sync_top(_list_insert_after(n.mman, vad, n.vad)),
             vad, addr, old_size, new_size)

\* "If the area is shrinking": sizes are the page-rounded ones
RemapShrink(mman, vad, addr, old_size, new_size) ==
    IF _end(mman, vad) # Word(addr + old_size)
    THEN RemapShrinkSplit(
             _mman_new_vad(mman, Word(addr + old_size),
                           Word(_end(mman, vad) - Word(addr + old_size)),
                           mman.vads[vad].prot, mman.vads[vad].flags),
             vad, addr, old_size, new_size)
    ELSE RemapShrinkTail(mman, vad, addr, old_size, new_size)

\* "If VAD is now contiguous with next one, coalesce them"
RemapCoalesce(mman, vad) ==
    IF mman.vads[vad].next # NULL
       /\ _end(mman, vad) = mman.vads[mman.vads[vad].next].addr
    THEN _free_list_put(
             _mman_sync_top(
                 _list_remove(
                     [mman EXCEPT
                        !.vads[vad].size =
                           Size32(@ + mman.vads[mman.vads[vad].next].size)],
                     mman.vads[vad].next)),
             mman.vads[vad].next)
    ELSE mman

\* "If there is room for this area to grow without moving it"
RemapGrowInPlace(mman, vad, addr, old_size, delta) ==
    IF Faults(mman, Word(addr + old_size), delta)
    THEN [mman |-> [mman EXCEPT !.vads[vad].size = Size32(@ + delta)],
          new_addr |-> NULL, ok |-> FALSE, fault |-> TRUE]
    ELSE [mman |-> RemapCoalesce(
                       MemSet([mman EXCEPT
                                 !.vads[vad].size = Size32(@ + delta)],
                              Word(addr + old_size), delta, "00"),
                       vad),
          new_addr |-> addr, ok |-> TRUE, fault |-> FALSE]

\* the move case after "Ummap the old area" returned um
RemapUnmapped(um, new_addr) ==
    IF um.fault
    THEN [mman |-> um.mman, new_addr |-> NULL, ok |-> FALSE, fault |-> TRUE]
    ELSE IF um.result # "OE_OK"
    THEN [mman |-> _mman_set_err(um.mman, "unmapping failed"),
          new_addr |-> NULL, ok |-> FALSE, fault |-> FALSE]
    ELSE [mman |-> um.mman, new_addr |-> new_addr, ok |-> TRUE,
          fault |-> FALSE]

\* the move case after "Map the new area" returned mp: "Copy over data
\* from old area", "Ummap the old area"
RemapMapped(mp, addr, old_size) ==
    IF mp.fault
    THEN [mman |-> mp.mman, new_addr |-> NULL, ok |-> FALSE, fault |-> TRUE]
    ELSE IF mp.result = NULL
    THEN [mman |-> _mman_set_err(mp.mman, "mapping failed"),
          new_addr |-> NULL, ok |-> FALSE, fault |-> FALSE]
    ELSE IF Faults(mp.mman, mp.result, old_size)
            \/ Faults(mp.mman, addr, old_size)
    THEN [mman |-> mp.mman, new_addr |-> NULL, ok |-> FALSE, fault |-> TRUE]
    ELSE RemapUnmapped(
             oe_mman_unmap(MemCpy(mp.mman, mp.result, addr, old_size),
                           addr, old_size),
             mp.result)

\* the else branch of the grow case: map the new area, copy, unmap the old
RemapMove(mman, vad, addr, old_size, new_size) ==
    RemapMapped(oe_mman_map(mman, NULL, new_size, mman.vads[vad].prot,
                            mman.vads[vad].flags),
                addr, old_size)

\* the cases of oe_mman_remap with a grow case that does not compare the
\* right gap of the VAD with the growth
RemapCasesNoGapCheck(mman, vad, addr, old_size, new_size) ==
    IF new_size < old_size
    THEN RemapShrink(mman, vad, addr, old_size, new_size)
    ELSE IF new_size > old_size
    THEN IF _end(mman, vad) = Word(addr + old_size)
         THEN RemapGrowInPlace(mman, vad, addr, old_size,
                               new_size - old_size)
         ELSE RemapMove(mman, vad, addr, old_size, new_size)
    ELSE [mman |-> mman, new_addr |-> addr, ok |-> TRUE, fault |-> FALSE]

\* the three cases of oe_mman_remap on the VAD that contains addr; sizes
\* are the page-rounded ones
RemapCases(mman, vad, addr, old_size, new_size) ==
    IF new_size < old_size
    THEN RemapShrink(mman, vad, addr, old_size, new_size)
    ELSE IF new_size > old_size
    THEN IF _end(mman, vad) = Word(addr + old_size)
            /\ _get_right_gap(mman, vad) >= new_size - old_size
         THEN RemapGrowInPlace(mman, vad, addr, old_size,
                               new_size - old_size)
         ELSE RemapMove(mman, vad, addr, old_size, new_size)
    ELSE [mman |-> mman, new_addr |-> addr, ok |-> TRUE, fault |-> FALSE]

\* oe_mman_remap after the cases: the exit sanity check s1
RemapExit(s1, new_addr) ==
    IF ~s1.ok THEN [mman |-> s1.mman, result |-> NULL, fault |-> FALSE]
    ELSE [mman |-> s1.mman, result |-> new_addr, fault |-> FALSE]

\* oe_mman_remap after the cases returned r
RemapDone(r) ==
    IF r.fault THEN [mman |-> r.mman, result |-> NULL, fault |-> TRUE]
    ELSE IF ~r.ok THEN [mman |-> r.mman, result |-> NULL, fault |-> FALSE]
    ELSE RemapExit(_mman_is_sane(r.mman), r.new_addr)

\* oe_mman_remap once _list_find returned vad for the address; sizes are
\* the page-rounded ones
RemapFound(mman, vad, addr, old_size, new_size) ==
    IF vad = NULL
    THEN [mman |-> _mman_set_err(mman,
                       "invalid addr parameter: mapping not found"),
          result |-> NULL, fault |-> FALSE]
    ELSE IF Word(addr + old_size) > _end(mman, vad)
    THEN [mman |-> _mman_set_err(mman, "invalid range"), result |-> NULL,
          fault |-> FALSE]
    ELSE RemapDone(RemapCases(mman, vad, addr, old_size, new_size))

\* oe_mman_remap after the entry sanity check s0
RemapChecked(s0, addr, old_size, new_size, flags) ==
    IF ~s0.ok THEN [mman |-> s0.mman, result |-> NULL, fault |-> FALSE]
    ELSE IF RemapParamErr(addr, old_size, new_size, flags) # ""
    THEN [mman |-> _mman_set_err(s0.mman,
                       RemapParamErr(addr, old_size, new_size, flags)),
          result |-> NULL, fault |-> FALSE]
    ELSE RemapFound(s0.mman, _list_find(s0.mman, addr), addr,
                    oe_round_up_to_multiple(old_size, OE_PAGE_SIZE),
                    oe_round_up_to_multiple(new_size, OE_PAGE_SIZE))

oe_mman_remap(mman, addr, old_size, new_size, flags) ==
    IF mman.magic # OE_HEAP_MAGIC \/ addr = NULL
    THEN [mman |-> _mman_set_err(_mman_clear_err(mman), "invalid parameter"),
          result |-> NULL, fault |-> FALSE]
    ELSE RemapChecked(_mman_is_sane(_mman_clear_err(mman)), addr, old_size,
                      new_size, flags)

(***************************************************************************)
(* State: the manager object with its descriptor array (mman); the public  *)
(* call that has just returned, with its arguments, and what it returned   *)
(* (call, ret; call.op = "none" when the caller has taken the result and   *)
(* is about to issue the next call); whether a call faulted instead of     *)
(* returning (crashed); and the number of calls made since the first call  *)
(* whose length argument wraps the machine word and that changed the       *)
(* manager (after, 0 before it).                                           *)
(***************************************************************************)
VARIABLES mman, call, ret, crashed, after, lock, stack, hist

vars == <<mman, call, ret, crashed, after, lock, stack, hist>>

\* the state of the threads that call the manager concurrently: the
\* manager's mutex (lock), the calls each thread is in (stack) and the calls
\* each thread has completed, with their results (hist)
tvars == <<lock, stack, hist>>

\* the threads
Threads == {1, 2}

NoCall == [op |-> "none", args |-> << >>]

Init ==
    /\ mman = ZeroMman
    /\ call = NoCall
    /\ ret = NULL
    /\ crashed = FALSE
    /\ after = 0
    /\ lock = [owner |-> 0, count |-> 0]
    /\ stack = [t \in Threads |-> << >>]
    /\ hist = [t \in Threads |-> << >>]

\* the caller is between two calls
Idle == call.op = "none" /\ ~crashed

\* the manager is initialised and the caller may issue a call
Live == Idle /\ mman.initialized = 1 /\ after <= MaxAfterWrap

\* the count of calls since the first wrapping call that changed the
\* manager, after one more call (wraps: this call is such a call)
Tick(wraps) == IF after > 0 \/ wraps THEN after + 1 ELSE after

\* the addresses of the pages of [start, end)
PageAddrs == {a \in mman.start .. mman.end - 1 : a % OE_PAGE_SIZE = 0}

\* page-multiple lengths up to the largest managed range
PageLens == {k * OE_PAGE_SIZE : k \in 1 .. MaxPages}

\* lengths that wrap the word: the largest size_t (rounding it up to a
\* page multiple gives 0) and the largest page multiple (more than the
\* numeric value of any address of the range)
WrapLens == {WordMod - 1, WordMod - OE_PAGE_SIZE}

\* oe_mman_init with a null, unaligned or page-aligned base and a size
\* that is invalid (0, not a page multiple), one page (the descriptor
\* array takes it all), two pages or the largest range
DoInit ==
    /\ Idle
    /\ mman.initialized = 0
    /\ \E base \in {0, GoodBase + 1, GoodBase},
          size \in {0, OE_PAGE_SIZE + 1, OE_PAGE_SIZE, 2 * OE_PAGE_SIZE,
                    MaxPages * OE_PAGE_SIZE} :
         LET r == oe_mman_init(mman, base, size) IN
         /\ mman' = r.mman
         /\ call' = [op |-> "init", args |-> <<base, size>>]
         /\ ret' = r.result
    /\ UNCHANGED <<crashed, after>>
    /\ UNCHANGED tvars

\* The caller takes the result of the call that returned.  The error
\* string is cleared here: no operation reads it and each of init, sbrk,
\* brk, map, unmap and remap clears it on entry (_mman_clear_err).
Return ==
    /\ call.op # "none"
    /\ ~crashed
    /\ mman' = _mman_clear_err(mman)
    /\ call' = NoCall
    /\ ret' = NULL
    /\ UNCHANGED <<crashed, after>>
    /\ UNCHANGED tvars

SetSanity ==
    /\ Live
    /\ \E b \in BOOLEAN :
         /\ b # mman.sanity
         /\ mman' = oe_mman_set_sanity(mman, b)
    /\ UNCHANGED <<call, ret, crashed, after>>
    /\ UNCHANGED tvars

\* heap->scrub = true, as the test helper _InitHeap sets it: after
\* oe_mman_init, before the first descriptor is taken from the array
SetScrub ==
    /\ Live
    /\ ~mman.scrub
    /\ mman.next_vad = 1
    /\ mman' = [mman EXCEPT !.scrub = TRUE]
    /\ UNCHANGED <<call, ret, crashed, after>>
    /\ UNCHANGED tvars

SbrkIncrements ==
    {0, OE_PAGE_SIZE, mman.map - mman.brk, mman.map - mman.brk + 1,
     -1, -OE_PAGE_SIZE, mman.start - mman.brk}
    \cup (IF mman.brk % OE_PAGE_SIZE < MaxBrkOffset THEN {1} ELSE {})

Sbrk ==
    /\ Live
    /\ \E increment \in SbrkIncrements :
         LET r == oe_mman_sbrk(mman, increment) IN
         /\ mman' = r.mman
         /\ call' = [op |-> "sbrk", args |-> <<increment>>]
         /\ ret' = r.result
    /\ after' = Tick(FALSE)
    /\ UNCHANGED crashed
    /\ UNCHANGED tvars

BrkAddrs ==
    {mman.start - 1, mman.start, mman.start + 1,
     mman.start + OE_PAGE_SIZE, mman.map - OE_PAGE_SIZE, mman.map - 1,
     mman.map, mman.end}

Brk ==
    /\ Live
    /\ \E addr \in BrkAddrs :
         LET r == oe_mman_brk(mman, addr) IN
         /\ mman' = r.mman
         /\ call' = [op |-> "brk", args |-> <<addr>>]
         /\ ret' = r.result
    /\ after' = Tick(FALSE)
    /\ UNCHANGED crashed
    /\ UNCHANGED tvars

\* the outcomes of a call that touches memory: r is its result when the
\* pages that follow end are inaccessible, u its result when they are not.
\* The two differ only when r faulted.
Outcomes(r, u) ==
    IF r.fault THEN {r, [u EXCEPT !.mman.guard = TRUE]} ELSE {r}

RW == {OE_PROT_READ, OE_PROT_WRITE}

AP == {OE_MAP_ANONYMOUS, OE_MAP_PRIVATE}

MapArgs ==
    {<<NULL, l, RW, AP>> :
        l \in {0, 1, OE_PAGE_SIZE + 1} \cup PageLens \cup WrapLens}
    \cup {<<a, OE_PAGE_SIZE, RW, AP>> : a \in {1, GoodBase}}
    \cup {<<NULL, OE_PAGE_SIZE, p, AP>> :
            p \in {{OE_PROT_READ}, {OE_PROT_WRITE}, RW \cup {OE_PROT_EXEC}}}
    \cup {<<NULL, OE_PAGE_SIZE, RW, f>> :
            f \in {{OE_MAP_ANONYMOUS}, {OE_MAP_PRIVATE},
                   AP \cup {OE_MAP_SHARED}, AP \cup {OE_MAP_FIXED}}}

\* a call of oe_mman_map; was records the page contents before the call
Map ==
    /\ Live
    /\ \E a \in MapArgs :
       \E r \in Outcomes(oe_mman_map(mman, a[1], a[2], a[3], a[4]),
                         oe_mman_map([mman EXCEPT !.guard = FALSE],
                                     a[1], a[2], a[3], a[4])) :
         /\ mman' = r.mman
         /\ call' = [op |-> "map", args |-> a, was |-> mman.mem]
         /\ ret' = r.result
         /\ crashed' = r.fault
         /\ after' = Tick(a[2] \in WrapLens
                          /\ _mman_clear_err(r.mman) # mman)
    /\ UNCHANGED tvars

UnmapArgs ==
    {<<a, l>> : a \in PageAddrs, l \in PageLens}
    \cup {<<mman.map, w>> : w \in WrapLens}
    \cup {<<NULL, OE_PAGE_SIZE>>, <<mman.start + 1, OE_PAGE_SIZE>>,
          <<mman.start, 0>>, <<mman.start, 1>>,
          <<mman.end, OE_PAGE_SIZE>>}

Unmap ==
    /\ Live
    /\ \E a \in UnmapArgs :
       \E r \in Outcomes(oe_mman_unmap(mman, a[1], a[2]),
                         oe_mman_unmap([mman EXCEPT !.guard = FALSE],
                                       a[1], a[2])) :
         /\ mman' = r.mman
         /\ call' = [op |-> "unmap", args |-> a]
         /\ ret' = r.result
         /\ crashed' = r.fault
         /\ after' = Tick(a[2] \in WrapLens
                          /\ _mman_clear_err(r.mman) # mman)
    /\ UNCHANGED tvars

\* old and new sizes for remap: one page, two pages, the largest range
RemapSizes == {OE_PAGE_SIZE, 2 * OE_PAGE_SIZE, MaxPages * OE_PAGE_SIZE}

RemapArgs ==
    {<<a, o, n, {OE_MREMAP_MAYMOVE}>> :
        a \in PageAddrs, o \in RemapSizes, n \in RemapSizes}
    \cup {<<a, x[1], x[2], {OE_MREMAP_MAYMOVE}>> :
            a \in PageAddrs,
            x \in {<<1, OE_PAGE_SIZE>>, <<1, OE_PAGE_SIZE + 1>>,
                   <<OE_PAGE_SIZE + 1, 1>>}}
    \cup {<<mman.map, w, OE_PAGE_SIZE, {OE_MREMAP_MAYMOVE}>> :
            w \in WrapLens}
    \cup {<<mman.map, OE_PAGE_SIZE, w, {OE_MREMAP_MAYMOVE}>> :
            w \in WrapLens}
    \cup {<<NULL, OE_PAGE_SIZE, OE_PAGE_SIZE, {OE_MREMAP_MAYMOVE}>>,
          <<mman.start + 1, OE_PAGE_SIZE, OE_PAGE_SIZE, {OE_MREMAP_MAYMOVE}>>,
          <<mman.start, 0, OE_PAGE_SIZE, {OE_MREMAP_MAYMOVE}>>,
          <<mman.start, OE_PAGE_SIZE, 0, {OE_MREMAP_MAYMOVE}>>,
          <<mman.start, OE_PAGE_SIZE, OE_PAGE_SIZE, {}>>,
          <<mman.end, OE_PAGE_SIZE, OE_PAGE_SIZE, {OE_MREMAP_MAYMOVE}>>}

Remap ==
    /\ Live
    /\ \E a \in RemapArgs :
       \E r \in Outcomes(oe_mman_remap(mman, a[1], a[2], a[3], a[4]),
                         oe_mman_remap([mman EXCEPT !.guard = FALSE],
                                       a[1], a[2], a[3], a[4])) :
         /\ mman' = r.mman
         /\ call' = [op |-> "remap", args |-> a]
         /\ ret' = r.result
         /\ crashed' = r.fault
         /\ after' = Tick((a[2] \in WrapLens \/ a[3] \in WrapLens)
                          /\ _mman_clear_err(r.mman) # mman)
    /\ UNCHANGED tvars

\* the descriptors of the region list from p on, in list order
RECURSIVE ListFrom(_, _)
ListFrom(m, p) ==
    IF p = NULL THEN << >> ELSE <<p>> \o ListFrom(m, m.vads[p].next)

\* the descriptors of the region list of manager m, as a set
Regions(m) ==
    {ListFrom(m, m.vad_list)[i] : i \in 1 .. Len(ListFrom(m, m.vad_list))}

\* the name of the data the caller writes to the i-th page of [start, end)
Data(i) == <<"D1", "D2", "D3", "D4", "D5", "D6", "D7", "D8">>[i]

\* _SetMem: the caller fills a page of a mapped region with its data
SetMem ==
    /\ Live
    /\ \E i \in 1 .. Len(mman.mem) :
         /\ \E v \in Regions(mman) :
              /\ mman.vads[v].addr <= PageAt(mman, i)
              /\ PageAt(mman, i) < mman.vads[v].addr + mman.vads[v].size
         /\ mman.mem[i] # Data(i)
         /\ mman' = [mman EXCEPT !.mem[i] = Data(i)]
    /\ UNCHANGED <<call, ret, crashed, after>>
    /\ UNCHANGED tvars

Next ==
    \/ DoInit
    \/ Return
    \/ SetSanity
    \/ SetScrub
    \/ Sbrk
    \/ Brk
    \/ Map
    \/ Unmap
    \/ Remap

\* the calls that touch the memory of [start, end), with a caller that
\* writes to the pages it has mapped
NextMem ==
    \/ DoInit
    \/ Return
    \/ SetSanity
    \/ SetScrub
    \/ Map
    \/ Unmap
    \/ Remap
    \/ SetMem

Spec == Init /\ [][Next]_vars

SpecMem == Init /\ [][NextMem]_vars

(***************************************************************************)
(* Properties of the region list and of the two frontiers.                 *)
(***************************************************************************)
\* the region list of the manager, head first
VadList == ListFrom(mman, mman.vad_list)

\* the manager is initialised and no call has faulted: a public call has
\* returned, or the caller is between two calls
Usable == mman.initialized = 1 /\ ~crashed

\* C1: after any sequence of init, sbrk, brk, map, unmap and remap calls,
\* every adjacent pair (p, q) of the region list has p.addr + p.size <
\* q.addr: the list is strictly increasing by address and no two live
\* regions overlap or touch.
C1_GapSeparated ==
    Usable =>
        \A i \in 1 .. Len(VadList) - 1 :
            mman.vads[VadList[i]].addr + mman.vads[VadList[i]].size
                < mman.vads[VadList[i + 1]].addr

C3_FrontierOrder ==
    Usable /\ (call.op = "init" => ret = "OE_OK") =>
        /\ mman.base <= mman.start
        /\ mman.start <= mman.brk
        /\ mman.brk <= mman.map
        /\ mman.map <= mman.end

\* the arguments pass the parameter checks of oe_mman_map
MapArgsValid(a) == MapParamErr(a[1], a[2], a[3], a[4]) = ""

\* [p, p + len) overlaps a region of the list of manager m
OverlapsLive(m, p, len) ==
    \E i \in 1 .. Len(ListFrom(m, m.vad_list)) :
        LET v == m.vads[ListFrom(m, m.vad_list)[i]] IN
        p < v.addr + v.size /\ v.addr < p + len

\* C4: for every non-zero length that passes the parameter checks of map,
\* lengths that wrap the word included, map either fails with null or
\* returns p such that [p, p + round_up(length)) holds at least length
\* bytes, lies inside [brk, end) and overlapped no region that was live
\* before the call.  (Stated of the calls that return.)
C4_MapResultValid ==
    [][call'.op = "map" /\ MapArgsValid(call'.args) /\ ~crashed' =>
         \/ ret' = NULL
         \/ /\ MapRoundLength(call'.args[2]) >= call'.args[2]
            /\ mman.brk <= ret'
            /\ ret' + MapRoundLength(call'.args[2]) <= mman.end
            /\ ~OverlapsLive(mman, ret', MapRoundLength(call'.args[2]))
      ]_vars

\* C5: every address a successful map or remap returns is page-aligned,
\* and in every state map and the addr and addr + size of every region of
\* the list are multiples of the page size, with size non-zero.
C5_PageAligned ==
    Usable =>
        /\ call.op \in {"map", "remap"} => ret % OE_PAGE_SIZE = 0
        /\ mman.map % OE_PAGE_SIZE = 0
        /\ \A i \in 1 .. Len(VadList) :
               /\ mman.vads[VadList[i]].addr % OE_PAGE_SIZE = 0
               /\ (mman.vads[VadList[i]].addr + mman.vads[VadList[i]].size)
                      % OE_PAGE_SIZE = 0
               /\ mman.vads[VadList[i]].size # 0

(***************************************************************************)
(* Properties of init, sbrk and brk.                                       *)
(***************************************************************************)
\* the manager driven through init, sbrk and brk only
NextBrk ==
    \/ DoInit
    \/ Return
    \/ Sbrk
    \/ Brk

SpecBrk == Init /\ [][NextBrk]_vars

\* C6 as claimed: brk is a multiple of the page size in every state
\* reachable through init, sbrk and brk, for every increment and address
\* these accept.
C6_BrkPageMultiple == Usable => mman.brk % OE_PAGE_SIZE = 0

\* C6: a successful init leaves brk a multiple of the page size, and an
\* sbrk or brk whose increment or address is a multiple of the page size
\* leaves a page-aligned brk page-aligned.
C6_BrkAlignedByCaller ==
    [][/\ call'.op = "init" /\ ret' = "OE_OK" =>
            mman'.brk % OE_PAGE_SIZE = 0
       /\ call'.op \in {"sbrk", "brk"}
            /\ mman.brk % OE_PAGE_SIZE = 0
            /\ call'.args[1] % OE_PAGE_SIZE = 0 =>
            mman'.brk % OE_PAGE_SIZE = 0
      ]_vars

\* sbrk has advanced a page-aligned brk by one page
C6_SbrkOnePage ==
    /\ call.op = "sbrk"
    /\ call.args[1] = OE_PAGE_SIZE
    /\ ret # NULL
    /\ mman.brk = ret + OE_PAGE_SIZE
    /\ mman.brk % OE_PAGE_SIZE = 0

\* C7: whenever init returns success the manager satisfies the sanity
\* predicate; a range whose setup is inconsistent (start == end) makes init
\* fail with Unexpected.
C7_InitSane ==
    call.op = "init" =>
        /\ ret = "OE_OK" => oe_mman_is_sane(mman).ok
        /\ mman.initialized = 1 /\ mman.start = mman.end =>
               ret = "OE_UNEXPECTED"

\* C8: sbrk(increment) with 0 <= increment <= map - brk returns the value
\* brk had before the call and leaves brk at that value plus increment;
\* increment = 0 returns brk and changes nothing.
C8_SbrkAdvances ==
    [][call'.op = "sbrk"
         /\ 0 <= call'.args[1]
         /\ call'.args[1] <= mman.map - mman.brk =>
         /\ ret' = mman.brk
         /\ mman'.brk = mman.brk + call'.args[1]
         /\ call'.args[1] = 0 => mman' = mman
      ]_vars

\* C9: sbrk(increment) with increment > map - brk returns null and leaves
\* brk, map and the region list unchanged; increment = map - brk succeeds.
C9_SbrkOutOfMemory ==
    [][call'.op = "sbrk" =>
         /\ call'.args[1] > mman.map - mman.brk =>
               /\ ret' = NULL
               /\ mman'.brk = mman.brk
               /\ mman'.map = mman.map
               /\ mman'.vad_list = mman.vad_list
               /\ mman'.vads = mman.vads
         /\ call'.args[1] = mman.map - mman.brk =>
               /\ ret' = mman.brk
               /\ mman'.brk = mman.map
      ]_vars

\* C10: sbrk with a negative increment of magnitude at most brk - start
\* succeeds: it returns the value of brk before the change and lowers brk
\* by that magnitude, never below start.
C10_SbrkNegative ==
    [][call'.op = "sbrk"
         /\ call'.args[1] < 0
         /\ -call'.args[1] <= mman.brk - mman.start =>
         /\ ret' = mman.brk
         /\ mman'.brk = mman.brk + call'.args[1]
         /\ mman'.brk >= mman.start
      ]_vars

\* C11: brk(addr) succeeds and sets brk = addr exactly when
\* start <= addr < map; for addr < start or addr >= map (addr = map
\* included) it fails with InvalidParameter and leaves brk unchanged.
C11_BrkRange ==
    [][call'.op = "brk" =>
         IF mman.start <= call'.args[1] /\ call'.args[1] < mman.map
         THEN ret' = "OE_OK" /\ mman'.brk = call'.args[1]
         ELSE ret' = "OE_INVALID_PARAMETER" /\ mman'.brk = mman.brk
      ]_vars

\* C12: sbrk and brk, whether they succeed or fail, leave the region list,
\* map, the free-descriptor list, the pool bump pointer and all memory
\* contents unchanged; only brk and the error string may change.
C12_BrkFrame ==
    [][call'.op \in {"sbrk", "brk"} =>
         [mman' EXCEPT !.brk = mman.brk, !.err = mman.err] = mman
      ]_vars

\* sbrk has handed out a page of never-written memory while a region is
\* mapped
C12_SbrkBesideRegion ==
    /\ call.op = "sbrk"
    /\ call.args[1] = OE_PAGE_SIZE
    /\ ret = mman.start
    /\ mman.brk = ret + OE_PAGE_SIZE
    /\ mman.vad_list # NULL
    /\ mman.mem[1] = "UU"

\* C13: map returns null and changes no frontier, region or descriptor
\* whenever the address hint is non-null, length is zero, prot lacks READ or
\* WRITE or includes EXEC, or flags lack ANONYMOUS or PRIVATE or include
\* SHARED or FIXED.
C13_MapRejects ==
    [][/\ call'.op = "map"
       /\ \/ call'.args[1] # NULL
          \/ call'.args[2] = 0
          \/ ~({OE_PROT_READ, OE_PROT_WRITE} \subseteq call'.args[3])
          \/ OE_PROT_EXEC \in call'.args[3]
          \/ ~({OE_MAP_ANONYMOUS, OE_MAP_PRIVATE} \subseteq call'.args[4])
          \/ call'.args[4] \cap {OE_MAP_SHARED, OE_MAP_FIXED} # {}
       => /\ ret' = NULL
          /\ [mman' EXCEPT !.err = mman.err] = mman
      ]_vars

\* map was refused for a page-aligned address hint while a region is mapped
\* and a gap of the requested length is free
C13_HintRefused ==
    /\ call.op = "map"
    /\ call.args[1] = GoodBase
    /\ ret = NULL
    /\ mman.err = "bad addr parameter: must be null"
    /\ mman.vad_list # NULL
    /\ mman.map - mman.brk >= call.args[2]

\* length rounded up to a multiple of the page size, as a number (no word
\* wrap)
PageRounded(length) ==
    ((length + OE_PAGE_SIZE - 1) \div OE_PAGE_SIZE) * OE_PAGE_SIZE

\* the free bytes between the end of region v of manager m and the next
\* region in address order, or end when v is the highest region
RightGap(m, v) ==
    LET above == {u \in Regions(m) : m.vads[u].addr > m.vads[v].addr}
    IN  IF above = {}
        THEN m.end - (m.vads[v].addr + m.vads[v].size)
        ELSE m.vads[CHOOSE u \in above :
                        \A w \in above : m.vads[u].addr <= m.vads[w].addr].addr
             - (m.vads[v].addr + m.vads[v].size)

\* the address first fit gives for L bytes in manager m: the end of the
\* lowest region whose right gap holds L bytes, map - L when there is none
FirstFit(m, L) ==
    LET fits == {v \in Regions(m) : RightGap(m, v) >= L}
    IN  IF fits = {}
        THEN m.map - L
        ELSE LET v == CHOOSE u \in fits :
                          \A w \in fits : m.vads[u].addr <= m.vads[w].addr
             IN  m.vads[v].addr + m.vads[v].size

\* C14: a successful map with page-rounded length L returns the end address
\* of the first region, in increasing address order, whose right gap is at
\* least L; only when no region has such a gap does it return map - L.
C14_FirstFit ==
    [][call'.op = "map" /\ ret' # NULL /\ ~crashed' =>
         ret' = FirstFit(mman, PageRounded(call'.args[2]))
      ]_vars

\* C15: map with valid parameters fails only when no free span fits: it
\* succeeds whenever some region's right gap is at least the page-rounded
\* length L or map - brk is at least L, in every reachable state.
C15_MapFits ==
    [][/\ call'.op = "map"
       /\ call'.args[1] = NULL
       /\ call'.args[2] # 0
       /\ call'.args[3] = {OE_PROT_READ, OE_PROT_WRITE}
       /\ call'.args[4] = {OE_MAP_ANONYMOUS, OE_MAP_PRIVATE}
       /\ \/ \E v \in Regions(mman) :
                RightGap(mman, v) >= PageRounded(call'.args[2])
          \/ mman.map - mman.brk >= PageRounded(call'.args[2])
       => ret' # NULL /\ ~crashed'
      ]_vars

\* C16: immediately after a successful map that returned p for the
\* page-rounded length L, every byte of [p, p + L) reads zero, whatever
\* those bytes held before the call (caller data or 0xDD).
C16_ZeroOnMap ==
    [][call'.op = "map" /\ ret' # NULL /\ ~crashed' =>
         \A i \in 1 .. Len(mman'.mem) :
             (/\ ret' <= PageAt(mman', i)
              /\ PageAt(mman', i) < ret' + MapRoundLength(call'.args[2]))
                 => mman'.mem[i] = "00"
      ]_vars

\* map has returned two pages that held caller data when it was called;
\* was is the memory before the call
C16_CallerDataZeroed ==
    /\ call.op = "map"
    /\ ret # NULL
    /\ call.args[2] = 2 * OE_PAGE_SIZE
    /\ \E i \in 1 .. Len(mman.mem) - 1 :
         /\ PageAt(mman, i) = ret
         /\ call.was[i] = Data(i)
         /\ call.was[i + 1] = Data(i + 1)
         /\ mman.mem[i] = "00"
         /\ mman.mem[i + 1] = "00"

\* the range [addr, addr + length) lies inside one region of manager m
InsideRegion(m, addr, length) ==
    \E v \in Regions(m) :
        /\ m.vads[v].addr <= addr
        /\ addr + length <= m.vads[v].addr + m.vads[v].size

\* C17: unmap fails with InvalidParameter and changes nothing when addr or
\* length is zero or not page-aligned, when addr lies in no live region, or
\* when addr + length extends past the end of the region that contains
\* addr; a range that covers several coalesced allocations is accepted.
C17_UnmapRejects ==
    [][call'.op = "unmap" =>
         IF \/ call'.args[1] = NULL
            \/ call'.args[2] = 0
            \/ call'.args[1] % OE_PAGE_SIZE # 0
            \/ call'.args[2] % OE_PAGE_SIZE # 0
            \/ ~InsideRegion(mman, call'.args[1], call'.args[2])
         THEN /\ ret' = "OE_INVALID_PARAMETER"
              /\ [mman' EXCEPT !.err = mman.err] = mman
         ELSE ret' # "OE_INVALID_PARAMETER"
      ]_vars

\* the regions of manager m as a set of <<address, size>> pairs
RegionSet(m) == {<<m.vads[v].addr, m.vads[v].size>> : v \in Regions(m)}

\* the regions a release of [addr, addr + length) inside the region
\* <<a, n>> leaves of it: what lies before addr and what lies after
\* addr + length
Remainder(a, n, addr, length) ==
    {<<a, addr - a>> : x \in IF a < addr THEN {1} ELSE {}}
    \cup {<<addr + length, a + n - (addr + length)>> :
              x \in IF addr + length < a + n THEN {1} ELSE {}}

\* C18: after a successful unmap(addr, length) inside region r, the mapped
\* pages are the previous ones minus [addr, addr + length): a full release
\* removes r, a prefix or suffix release shrinks r, an interior release
\* leaves exactly two gap-separated regions; the other regions are
\* unchanged, and map is the address of the first region or end.
C18_UnmapEffect ==
    [][/\ call'.op = "unmap"
       /\ ret' = "OE_OK"
       /\ InsideRegion(mman, call'.args[1], call'.args[2])
       => /\ \E r \in RegionSet(mman) :
               /\ r[1] <= call'.args[1]
               /\ call'.args[1] + call'.args[2] <= r[1] + r[2]
               /\ RegionSet(mman')
                    = (RegionSet(mman) \ {r})
                      \cup Remainder(r[1], r[2], call'.args[1],
                                     call'.args[2])
          /\ Len(ListFrom(mman', mman'.vad_list))
               = Cardinality(RegionSet(mman'))
          /\ mman'.map = IF mman'.vad_list = NULL THEN mman'.end
                         ELSE mman'.vads[mman'.vad_list].addr
      ]_vars

\* C19: remap(p, n, m, MayMove) with round_up(n) = round_up(m), for a range
\* inside a live region, returns p and leaves the frontiers, the region
\* list, the descriptors and the memory contents unchanged.
C19_RemapSameSize ==
    [][/\ call'.op = "remap"
       /\ call'.args[1] # NULL
       /\ call'.args[1] % OE_PAGE_SIZE = 0
       /\ call'.args[2] # 0
       /\ call'.args[3] # 0
       /\ call'.args[4] = {OE_MREMAP_MAYMOVE}
       /\ PageRounded(call'.args[2]) = PageRounded(call'.args[3])
       /\ InsideRegion(mman, call'.args[1], PageRounded(call'.args[2]))
       => /\ ret' = call'.args[1]
          /\ [mman' EXCEPT !.err = mman.err] = mman
      ]_vars

\* C20: when the page-rounded new_size is less than the page-rounded
\* old_size, remap returns the original address and the mapped pages are
\* the previous ones minus [addr + new_size, addr + old_size): the part
\* beyond addr + old_size stays mapped as a separate region, the part
\* before addr stays in the original region, and the first new_size bytes
\* keep their contents.
C20_RemapShrink ==
    [][/\ call'.op = "remap"
       /\ call'.args[1] # NULL
       /\ call'.args[1] % OE_PAGE_SIZE = 0
       /\ call'.args[2] # 0
       /\ call'.args[3] # 0
       /\ call'.args[4] = {OE_MREMAP_MAYMOVE}
       /\ PageRounded(call'.args[3]) < PageRounded(call'.args[2])
       /\ InsideRegion(mman, call'.args[1], PageRounded(call'.args[2]))
       => /\ ret' = call'.args[1]
          /\ \E r \in RegionSet(mman) :
               /\ r[1] <= call'.args[1]
               /\ call'.args[1] + PageRounded(call'.args[2]) <= r[1] + r[2]
               /\ RegionSet(mman')
                    = (RegionSet(mman) \ {r})
                      \cup Remainder(r[1], r[2],
                                     call'.args[1]
                                       + PageRounded(call'.args[3]),
                                     PageRounded(call'.args[2])
                                       - PageRounded(call'.args[3]))
          /\ Len(ListFrom(mman', mman'.vad_list))
               = Cardinality(RegionSet(mman'))
          /\ \A i \in 1 .. Len(mman.mem) :
               (/\ call'.args[1] <= PageAt(mman, i)
                /\ PageAt(mman, i)
                     < call'.args[1] + PageRounded(call'.args[3]))
                   => mman'.mem[i] = mman.mem[i]
      ]_vars

\* remap(addr, old, new) of manager m is a request to grow the tail of
\* region v by new - old bytes that fit in the gap to the right of v; old
\* and new are the page-rounded sizes
GrowsTail(m, v, addr, old, new) ==
    /\ new > old
    /\ m.vads[v].addr <= addr
    /\ addr + old = m.vads[v].addr + m.vads[v].size
    /\ RightGap(m, v) >= new - old

\* the regions of manager m that start where region v, grown by delta
\* bytes, ends
Touched(m, v, delta) ==
    {u \in Regions(m) :
        m.vads[u].addr = m.vads[v].addr + m.vads[v].size + delta}

\* C21: when new_size > old_size, the request ends exactly at its region's
\* end, and the gap to the right neighbour (or to end) is at least
\* new_size - old_size, remap returns the original address, extends the
\* region by exactly the growth with the new bytes zeroed and the old bytes
\* untouched, and if the region then touches its right neighbour the two
\* are merged into one region and the neighbour's descriptor goes to the
\* free list.
C21_RemapGrowInPlace ==
    [][/\ call'.op = "remap"
       /\ call'.args[1] # NULL
       /\ call'.args[1] % OE_PAGE_SIZE = 0
       /\ call'.args[2] # 0
       /\ call'.args[3] # 0
       /\ call'.args[4] = {OE_MREMAP_MAYMOVE}
       /\ \E v \in Regions(mman) :
            GrowsTail(mman, v, call'.args[1], PageRounded(call'.args[2]),
                      PageRounded(call'.args[3]))
       => /\ ret' = call'.args[1]
          /\ \E v \in Regions(mman) :
               LET delta == PageRounded(call'.args[3])
                              - PageRounded(call'.args[2])
                   next == Touched(mman, v, delta)
               IN  /\ GrowsTail(mman, v, call'.args[1],
                                PageRounded(call'.args[2]),
                                PageRounded(call'.args[3]))
                   /\ RegionSet(mman')
                        = (RegionSet(mman)
                             \ ({<<mman.vads[v].addr, mman.vads[v].size>>}
                                \cup {<<mman.vads[u].addr,
                                        mman.vads[u].size>> : u \in next}))
                          \cup {<<mman.vads[v].addr,
                                  IF next = {}
                                  THEN mman.vads[v].size + delta
                                  ELSE mman.vads[v].size + delta
                                       + mman.vads[CHOOSE u \in next :
                                                     TRUE].size>>}
                   /\ Len(ListFrom(mman', mman'.vad_list))
                        = Cardinality(RegionSet(mman'))
                   /\ next # {} => mman'.free_vads \in next
                   /\ next = {} => mman'.free_vads = mman.free_vads
          /\ \A i \in 1 .. Len(mman.mem) :
               mman'.mem[i]
                 = IF /\ call'.args[1] + PageRounded(call'.args[2])
                           <= PageAt(mman, i)
                      /\ PageAt(mman, i)
                           < call'.args[1] + PageRounded(call'.args[3])
                   THEN "00"
                   ELSE mman.mem[i]
      ]_vars

\* the manager was initialised and nothing was mapped or taken by sbrk
\* since
Fresh(m) ==
    /\ m.initialized = 1
    /\ m.brk = m.start
    /\ m.map = m.end
    /\ m.vad_list = NULL
    /\ m.next_vad = 1

\* the only descriptor taken since oe_mman_init holds the only region, and
\* the region ends at end: it has no right neighbour
OneRegionAtTop(m) ==
    /\ m.initialized = 1
    /\ m.brk = m.start
    /\ m.next_vad = 2
    /\ m.free_vads = NULL
    /\ m.vad_list = 1
    /\ m.vads[1].next = NULL
    /\ m.vads[1].size > 0
    /\ m.vads[1].addr + m.vads[1].size = m.end
    /\ m.map = m.vads[1].addr

\* C22: on a freshly initialised manager, mapping k pages returns X with no
\* right neighbour, and a following remap of X from k to 2k pages returns X
\* (the region grows in place instead of moving).
C22_GrowAtTopInPlace ==
    [][/\ call'.op = "remap"
       /\ OneRegionAtTop(mman)
       /\ call'.args = <<mman.vads[1].addr, mman.vads[1].size,
                         2 * mman.vads[1].size, {OE_MREMAP_MAYMOVE}>>
       /\ mman.map - mman.brk >= 2 * mman.vads[1].size
       => ret' = call'.args[1]
      ]_vars

\* C22 (amended): on a freshly initialised manager, mapping L bytes returns
\* X = end - L, a region with no right neighbour and right gap 0, and a
\* following remap of X from L to a larger size N that fits below X
\* returns X - N: the mapping is moved to [X - N, X).
C22_GrowAtTopMoves ==
    [][/\ (/\ call'.op = "map"
           /\ Fresh(mman)
           /\ MapArgsValid(call'.args)
           /\ call'.args[2] <= mman.end - mman.start
           => /\ ret' = mman.end - PageRounded(call'.args[2])
              /\ OneRegionAtTop(mman')
              /\ mman'.vads[1].size = PageRounded(call'.args[2]))
       /\ (/\ call'.op = "remap"
           /\ OneRegionAtTop(mman)
           /\ call'.args[1] = mman.vads[1].addr
           /\ call'.args[2] = mman.vads[1].size
           /\ call'.args[4] = {OE_MREMAP_MAYMOVE}
           /\ PageRounded(call'.args[3]) > call'.args[2]
           /\ mman.map - mman.brk >= PageRounded(call'.args[3])
           => /\ ret' = call'.args[1] - PageRounded(call'.args[3])
              /\ RegionSet(mman') = {<<ret', PageRounded(call'.args[3])>>}
              /\ mman'.map = ret')
      ]_vars

\* remap of the one-page region at the top of a fresh manager to two pages
\* has returned the address two pages below it
C22_MovedBelow ==
    /\ call.op = "remap"
    /\ call.args[2] = OE_PAGE_SIZE
    /\ call.args[3] = 2 * OE_PAGE_SIZE
    /\ call.args[1] = mman.end - OE_PAGE_SIZE
    /\ ret = call.args[1] - 2 * OE_PAGE_SIZE
    /\ RegionSet(mman) = {<<ret, 2 * OE_PAGE_SIZE>>}
    /\ mman.brk = mman.start
    /\ mman.next_vad = 2

\* the contents of the page at address a: mem holds the pages of
\* [start, end), the contents of any other page are unknown
Contents(m, a) ==
    IF (a - m.start) \div OE_PAGE_SIZE + 1 \in 1 .. Len(m.mem)
    THEN m.mem[(a - m.start) \div OE_PAGE_SIZE + 1]
    ELSE "UU"

\* C23: when remap must grow a range that is not at its region's tail or
\* whose right gap is smaller than the growth, and free space exists, it
\* returns a new address p' # addr such that [p', p' + new_size) is mapped,
\* its first old_size bytes equal the old contents and the remaining bytes
\* are zero, and the old range [addr, addr + old_size) is no longer mapped.
C23_RemapGrowByMove ==
    [][/\ call'.op = "remap"
       /\ call'.args[1] # NULL
       /\ call'.args[1] % OE_PAGE_SIZE = 0
       /\ call'.args[2] # 0
       /\ call'.args[3] # 0
       /\ call'.args[4] = {OE_MREMAP_MAYMOVE}
       /\ PageRounded(call'.args[3]) > PageRounded(call'.args[2])
       /\ InsideRegion(mman, call'.args[1], PageRounded(call'.args[2]))
       /\ ~\E v \in Regions(mman) :
              GrowsTail(mman, v, call'.args[1], PageRounded(call'.args[2]),
                        PageRounded(call'.args[3]))
       /\ \/ \E v \in Regions(mman) :
                RightGap(mman, v) >= PageRounded(call'.args[3])
          \/ mman.map - mman.brk >= PageRounded(call'.args[3])
       => /\ ~crashed'
          /\ ret' # NULL
          /\ ret' # call'.args[1]
          /\ InsideRegion(mman', ret', PageRounded(call'.args[3]))
          /\ \A k \in 0 .. PageRounded(call'.args[3]) \div OE_PAGE_SIZE - 1 :
               Contents(mman', ret' + k * OE_PAGE_SIZE)
                 = IF k < PageRounded(call'.args[2]) \div OE_PAGE_SIZE
                   THEN Contents(mman, call'.args[1] + k * OE_PAGE_SIZE)
                   ELSE "00"
          /\ \A k \in 0 .. PageRounded(call'.args[2]) \div OE_PAGE_SIZE - 1 :
               ~InsideRegion(mman', call'.args[1] + k * OE_PAGE_SIZE,
                             OE_PAGE_SIZE)
      ]_vars

\* the pages covered by the regions of the list
MappedPages(m) ==
    UNION {{r[1] + k * OE_PAGE_SIZE : k \in 0 .. r[2] \div OE_PAGE_SIZE - 1} :
           r \in RegionSet(m)}

\* C24: for any successful map(n) returning p, whether it created a new
\* region or was coalesced into one or two neighbours, an immediate
\* unmap(p, round_up(n)) succeeds, leaves the sanity predicate true, and
\* restores the set of mapped pages and the map frontier to their values
\* before the map.
C24_MapUnmapRoundTrip ==
    [][/\ call'.op = "map"
       /\ ret' # NULL
       /\ ~crashed'
       => /\ oe_mman_unmap(mman', ret',
                           MapRoundLength(call'.args[2])).result = "OE_OK"
          /\ oe_mman_is_sane(oe_mman_unmap(mman', ret',
                 MapRoundLength(call'.args[2])).mman).ok
          /\ MappedPages(oe_mman_unmap(mman', ret',
                 MapRoundLength(call'.args[2])).mman) = MappedPages(mman)
          /\ oe_mman_unmap(mman', ret',
                 MapRoundLength(call'.args[2])).mman.map = mman.map
      ]_vars

\* the sum of the sizes of the regions of the list from descriptor p on
RECURSIVE SizeSum(_, _)
SizeSum(m, p) ==
    IF p = NULL THEN 0 ELSE m.vads[p].size + SizeSum(m, m.vads[p].next)

\* the sum of the gaps to the right of the regions of the list from
\* descriptor p on: up to the next region, or up to end after the last one
RECURSIVE GapSum(_, _)
GapSum(m, p) ==
    IF p = NULL THEN 0
    ELSE (IF m.vads[p].next = NULL THEN m.end
          ELSE m.vads[m.vads[p].next].addr)
         - (m.vads[p].addr + m.vads[p].size)
         + GapSum(m, m.vads[p].next)

C26_AllReleased ==
    [][/\ call'.op = "unmap"
       /\ ret' = "OE_OK"
       /\ ~crashed'
       /\ MappedPages(mman') = {}
       => /\ mman'.vad_list = NULL
          /\ mman'.map = mman'.end
      ]_vars

(***************************************************************************)
(* The gap-reuse scenario of TestHeap1 on a heap of TestPages pages.       *)
(***************************************************************************)
\* _InitHeap on a range that leaves a heap of TestPages pages:
\* oe_mman_init, heap->scrub = true, oe_mman_set_sanity(heap, true)
InitHeap ==
    /\ Idle
    /\ mman.initialized = 0
    /\ LET r == oe_mman_init(mman, GoodBase, (TestPages + 1) * OE_PAGE_SIZE)
       IN  /\ mman' = IF r.result = "OE_OK"
                      THEN oe_mman_set_sanity([r.mman EXCEPT !.scrub = TRUE],
                                              TRUE)
                      ELSE r.mman
           /\ call' = [op |-> "init",
                       args |-> <<GoodBase, (TestPages + 1) * OE_PAGE_SIZE>>]
           /\ ret' = r.result
    /\ UNCHANGED <<crashed, after>>
    /\ UNCHANGED tvars

\* the sizes TestHeap1 maps and unmaps: (i + 1) pages for region i
TestLens == {(i + 1) * OE_PAGE_SIZE : i \in 0 .. TestRegions - 1}

\* _HeapMap(&h, NULL, r): the regions are mapped before any is released,
\* a single page is mapped at any time; r is a size of TestHeap1 or one
\* page more than the heap
HeapMap ==
    /\ Live
    /\ \E l \in TestLens \cup {(TestPages + 1) * OE_PAGE_SIZE} :
       /\ l = OE_PAGE_SIZE \/ Fresh(mman) \/ OneRegionAtTop(mman)
       /\ \E r \in Outcomes(oe_mman_map(mman, NULL, l, RW, AP),
                            oe_mman_map([mman EXCEPT !.guard = FALSE],
                                        NULL, l, RW, AP)) :
            /\ mman' = r.mman
            /\ call' = [op |-> "map", args |-> <<NULL, l, RW, AP>>,
                        was |-> mman.mem]
            /\ ret' = r.result
            /\ crashed' = r.fault
    /\ UNCHANGED after
    /\ UNCHANGED tvars

\* ptrs[i] of TestHeap1: the address the i-th map of the scenario returns
\* on a fresh manager m, below the i regions mapped before it
Ptr(m, i) == m.end - (((i + 1) * (i + 2)) \div 2) * OE_PAGE_SIZE

\* _HeapUnmap(&h, ptrs[i], (i + 1) pages) of every other allocation: the
\* allocations below and above the released one stay mapped, and no
\* descriptor has been released (TestHeap1 finds the free list empty after
\* these calls)
HeapUnmap ==
    /\ Live
    /\ mman.free_vads = NULL
    /\ \E i \in 0 .. TestRegions - 1 :
       /\ InsideRegion(mman, Ptr(mman, i) - OE_PAGE_SIZE,
                       (i + 2) * OE_PAGE_SIZE)
       /\ \/ i = 0
          \/ InsideRegion(mman, Ptr(mman, i), (i + 2) * OE_PAGE_SIZE)
       /\ \E r \in Outcomes(oe_mman_unmap(mman, Ptr(mman, i),
                                          (i + 1) * OE_PAGE_SIZE),
                            oe_mman_unmap([mman EXCEPT !.guard = FALSE],
                                          Ptr(mman, i),
                                          (i + 1) * OE_PAGE_SIZE)) :
            /\ mman' = r.mman
            /\ call' = [op |-> "unmap",
                        args |-> <<Ptr(mman, i), (i + 1) * OE_PAGE_SIZE>>]
            /\ ret' = r.result
            /\ crashed' = r.fault
    /\ UNCHANGED after
    /\ UNCHANGED tvars

NextHeap ==
    \/ InitHeap
    \/ Return
    \/ HeapMap
    \/ HeapUnmap

SpecHeap == Init /\ [][NextHeap]_vars

\* the state of the scenario after "Free every other region": the
\* odd-indexed regions are mapped, the even-indexed ones are released
EveryOtherFreed(m) ==
    /\ m.initialized = 1
    /\ m.brk = m.start
    /\ m.end - m.start = TestPages * OE_PAGE_SIZE
    /\ RegionSet(m) = {<<Ptr(m, i), (i + 1) * OE_PAGE_SIZE>> :
                          i \in {j \in 0 .. TestRegions - 1 : j % 2 = 1}}

\* the highest even index below an odd index of the scenario: the released
\* region right above the lowest region still mapped
LowestGap == IF TestRegions % 2 = 0 THEN TestRegions - 2 ELSE TestRegions - 3

\* C27: after mapping regions of (i + 1) pages for i = 0 .. n - 1 on a fresh
\* manager and unmapping the even-indexed ones, a map of one page is placed
\* at the lowest released gap, which is the address originally returned for
\* i = 0.
C27_GapReuseAtFirst ==
    [][/\ call'.op = "map"
       /\ call'.args[2] = OE_PAGE_SIZE
       /\ EveryOtherFreed(mman)
       => ret' = Ptr(mman, 0)
      ]_vars

\* C27 (amended): the i-th map of the scenario returns map - (i + 1) pages,
\* so region 0 is the highest and the regions form one region down from
\* end; after unmapping the even-indexed ones, a map of one page is placed
\* at the end of the lowest region of the list, the lowest released gap in
\* the list: the address originally returned for the highest even index
\* below an odd one (i = 14 of 16), not for i = 0.
C27_GapReuseAtLowest ==
    [][/\ (/\ call'.op = "map"
           /\ Fresh(mman) \/ OneRegionAtTop(mman)
           /\ call'.args[2] <= mman.map - mman.brk
           => /\ ret' = mman.map - call'.args[2]
              /\ OneRegionAtTop(mman')
              /\ mman'.vads[1].size = mman.end - ret')
       /\ (/\ call'.op = "map"
           /\ call'.args[2] = OE_PAGE_SIZE
           /\ EveryOtherFreed(mman)
           => /\ ret' = Ptr(mman, LowestGap)
              /\ ret' = mman.vads[mman.vad_list].addr
                          + mman.vads[mman.vad_list].size
              /\ ret' < Ptr(mman, 0)
              /\ RegionSet(mman') =
                   (RegionSet(mman)
                      \ {<<Ptr(mman, LowestGap + 1),
                           (LowestGap + 2) * OE_PAGE_SIZE>>})
                   \cup {<<Ptr(mman, LowestGap + 1),
                           (LowestGap + 3) * OE_PAGE_SIZE>>})
      ]_vars

\* the one-page map after "Free every other region" has returned the
\* address of the lowest released region
C27_PlacedAtLowestGap ==
    /\ call.op = "map"
    /\ call.args[2] = OE_PAGE_SIZE
    /\ ret = Ptr(mman, LowestGap)
    /\ mman.brk = mman.start
    /\ mman.end - mman.start = TestPages * OE_PAGE_SIZE
    /\ RegionSet(mman) =
         {<<Ptr(mman, i), (i + 1) * OE_PAGE_SIZE>> :
             i \in {j \in 0 .. TestRegions - 1 :
                      j % 2 = 1 /\ j # LowestGap + 1}}
         \cup {<<Ptr(mman, LowestGap + 1), (LowestGap + 3) * OE_PAGE_SIZE>>}

FreeSet(m) ==
    {ListFrom(m, m.free_vads)[i] : i \in 1 .. Len(ListFrom(m, m.free_vads))}

\* the conditions oe_mman_is_sane tests, stated of the list as a whole
CheckedBySane(m) ==
    /\ m.magic = OE_HEAP_MAGIC
    /\ m.initialized = 1
    /\ m.start < m.end
    /\ m.size = Word(m.end - m.base)
    /\ m.start <= m.brk
    /\ m.map <= m.end
    /\ m.map = IF m.vad_list = NULL THEN m.end
               ELSE m.vads[m.vad_list].addr
    /\ \A i \in 1 .. Len(ListFrom(m, m.vad_list)) - 1 :
         /\ m.vads[ListFrom(m, m.vad_list)[i]].addr
              < m.vads[ListFrom(m, m.vad_list)[i + 1]].addr
         /\ _end(m, ListFrom(m, m.vad_list)[i])
              < m.vads[ListFrom(m, m.vad_list)[i + 1]].addr

C30_FailureChangesNothing ==
    [][/\ ~crashed'
       /\ \/ call'.op \in {"sbrk", "map", "remap"} /\ ret' = NULL
          \/ call'.op \in {"brk", "unmap"} /\ ret' # "OE_OK"
       => /\ mman'.brk = mman.brk
          /\ mman'.map = mman.map
          /\ [i \in 1 .. Len(ListFrom(mman', mman'.vad_list)) |->
                <<mman'.vads[ListFrom(mman', mman'.vad_list)[i]].addr,
                  mman'.vads[ListFrom(mman', mman'.vad_list)[i]].size>>]
               = [i \in 1 .. Len(ListFrom(mman, mman.vad_list)) |->
                    <<mman.vads[ListFrom(mman, mman.vad_list)[i]].addr,
                      mman.vads[ListFrom(mman, mman.vad_list)[i]].size>>]
          /\ ListFrom(mman', mman'.free_vads)
               = ListFrom(mman, mman.free_vads)
          /\ mman'.next_vad = mman.next_vad
      ]_vars

(***************************************************************************)
(* Error reporting.                                                        *)
(***************************************************************************)
\* the result r of a call of op is the failure token of op: the null
\* pointer for the calls that return an address, a status other than OE_OK
\* for the others
Failed(op, r) ==
    IF op \in {"sbrk", "map", "remap"} THEN r = NULL ELSE r # "OE_OK"

\* C31: every call of init, sbrk, brk, map, unmap or remap that returns its
\* failure token (the null pointer for sbrk, map and remap, a status other
\* than OE_OK for init, brk and unmap) leaves a non-empty error string, on
\* every failure path, the entry and exit sanity checks and the nested
\* calls of remap included.
C31_FailureSetsErr ==
    [][/\ call'.op \in {"init", "sbrk", "brk", "map", "unmap", "remap"}
       /\ ~crashed'
       /\ Failed(call'.op, ret')
       => mman'.err # ""
      ]_vars

\* a remap returned the null pointer because its nested unmap failed
C31_NestedFailureReported ==
    /\ ~crashed
    /\ call.op = "remap"
    /\ ret = NULL
    /\ mman.err = "unmapping failed"

(***************************************************************************)
(* Threads.  Each of sbrk, brk, map, unmap and remap runs between          *)
(* _mman_lock and _mman_unlock; oe_mman_is_sane takes no lock.  A thread   *)
(* is in a stack of calls (remap calls map and unmap); the body of a call  *)
(* is one step except where another thread can see it in between: the      *)
(* list changes of oe_mman_unmap and the nested calls of oe_mman_remap.    *)
(***************************************************************************)
\* calls the first thread makes; the second thread makes one call
MaxThreadCalls == 2

\* the recursive mutex of the host runtime: free, or held by thread owner
\* count times
MutexFree(l, t) == l.owner \in {0, t}

pthread_mutex_lock(l, t) == [owner |-> t, count |-> l.count + 1]

pthread_mutex_unlock(l, t) ==
    IF l.count = 1 THEN [owner |-> 0, count |-> 0]
    ELSE [owner |-> l.owner, count |-> l.count - 1]

\* Lock the heap and set the 'locked' parameter to true
_mman_lock(l, t) == pthread_mutex_lock(l, t)

\* _mman_unlock that leaves the mutex held
UnlockNever(l, t, locked) == l

\* Unlock the heap and set the 'locked' parameter to false
_mman_unlock(l, t, locked) ==
    IF locked THEN pthread_mutex_unlock(l, t) ELSE l

\* the number of times thread t holds the mutex
Held(t) == IF lock.owner = t THEN lock.count ELSE 0

\* the call thread t is executing: the innermost of its stack
Top(t) == stack[t][Len(stack[t])]

\* the stack of thread t with its innermost call replaced by f
SetTop(t, f) == [stack EXCEPT ![t][Len(stack[t])] = f]

\* thread t is at position pc of a call of op
At(t, op, pc) ==
    /\ ~crashed
    /\ stack[t] # << >>
    /\ Top(t).op = op
    /\ Top(t).pc = pc

\* a call that starts: held is the number of times the caller holds the
\* mutex, vad, sub and keep are locals of the call (the VAD found, the
\* result of the nested call that returned, the new address of a move)
NewFrame(op, args, held) ==
    [op |-> op, args |-> args,
     pc |-> IF op = "is_sane" THEN "sane" ELSE "lock",
     locked |-> FALSE, held |-> held, vad |-> NULL, sub |-> NULL,
     keep |-> NULL, res |-> NULL]

\* the heap the threads share: _InitHeap with the sanity checks on or off
ThreadsHeap(sanity) ==
    oe_mman_set_sanity(
        [oe_mman_init(ZeroMman, GoodBase, MaxPages * OE_PAGE_SIZE).mman
           EXCEPT !.scrub = TRUE],
        sanity)

StartThreads ==
    /\ Idle
    /\ mman.initialized = 0
    /\ \E b \in BOOLEAN : mman' = ThreadsHeap(b)
    /\ UNCHANGED <<call, ret, crashed, after, tvars>>

\* the calls a thread makes
ThreadCalls ==
    {[op |-> "sbrk", args |-> <<OE_PAGE_SIZE>>],
     [op |-> "brk", args |-> <<mman.start>>],
     [op |-> "is_sane", args |-> << >>]}
    \cup {[op |-> "map", args |-> <<NULL, l, RW, AP>>] :
            l \in {OE_PAGE_SIZE, 2 * OE_PAGE_SIZE}}
    \cup {[op |-> "unmap", args |-> <<a, OE_PAGE_SIZE>>] : a \in PageAddrs}
    \cup {[op |-> "remap",
           args |-> <<a, OE_PAGE_SIZE, 2 * OE_PAGE_SIZE,
                      {OE_MREMAP_MAYMOVE}>>] : a \in PageAddrs}

\* thread t calls a public operation
TCall(t) ==
    /\ ~crashed
    /\ mman.initialized = 1
    /\ stack[t] = << >>
    /\ Len(hist[t]) < (IF t = 1 THEN MaxThreadCalls ELSE 1)
    /\ \E c \in ThreadCalls :
         stack' = [stack EXCEPT ![t] = <<NewFrame(c.op, c.args, Held(t))>>]
    /\ UNCHANGED <<mman, call, ret, crashed, after, lock, hist>>

\* _mman_lock(mman, &locked): blocks while another thread holds the mutex
TLock(t) ==
    /\ ~crashed
    /\ stack[t] # << >>
    /\ Top(t).pc = "lock"
    /\ MutexFree(lock, t)
    /\ lock' = _mman_lock(lock, t)
    /\ stack' = SetTop(t, [Top(t) EXCEPT !.pc = "body", !.locked = TRUE])
    /\ UNCHANGED <<mman, call, ret, crashed, after, hist>>

\* the body of oe_mman_sbrk
TSbrk(t) ==
    /\ At(t, "sbrk", "body")
    /\ LET r == oe_mman_sbrk(mman, Top(t).args[1]) IN
         /\ mman' = r.mman
         /\ stack' = SetTop(t, [Top(t) EXCEPT !.pc = "unlock",
                                              !.res = r.result])
    /\ UNCHANGED <<call, ret, crashed, after, lock, hist>>

\* the body of oe_mman_brk
TBrk(t) ==
    /\ At(t, "brk", "body")
    /\ LET r == oe_mman_brk(mman, Top(t).args[1]) IN
         /\ mman' = r.mman
         /\ stack' = SetTop(t, [Top(t) EXCEPT !.pc = "unlock",
                                              !.res = r.result])
    /\ UNCHANGED <<call, ret, crashed, after, lock, hist>>

\* the body of oe_mman_map
TMap(t) ==
    /\ At(t, "map", "body")
    /\ LET r == oe_mman_map(mman, Top(t).args[1], Top(t).args[2],
                            Top(t).args[3], Top(t).args[4]) IN
         /\ mman' = r.mman
         /\ crashed' = r.fault
         /\ stack' = SetTop(t, [Top(t) EXCEPT !.pc = "unlock",
                                              !.res = r.result])
    /\ UNCHANGED <<call, ret, after, lock, hist>>

\* oe_mman_unmap passes its checks and reaches the four cases
UnmapReachesCases(m, addr, length) ==
    /\ m.magic = OE_HEAP_MAGIC
    /\ addr # NULL
    /\ length # 0
    /\ _mman_is_sane(m).ok
    /\ addr % OE_PAGE_SIZE = 0
    /\ length % OE_PAGE_SIZE = 0
    /\ _list_find(m, addr) # NULL
    /\ Word(addr + length) <= _end(m, _list_find(m, addr))

\* oe_mman_unmap up to the four cases: the checks and _list_find
TUnmap(t) ==
    /\ At(t, "unmap", "body")
    /\ IF UnmapReachesCases(mman, Top(t).args[1], Top(t).args[2])
       THEN /\ mman' = _mman_is_sane(_mman_clear_err(mman)).mman
            /\ stack' = SetTop(t, [Top(t) EXCEPT
                                     !.pc = "cases",
                                     !.vad = _list_find(mman,
                                                        Top(t).args[1])])
       ELSE LET r == oe_mman_unmap(mman, Top(t).args[1], Top(t).args[2])
            IN  /\ mman' = r.mman
                /\ stack' = SetTop(t, [Top(t) EXCEPT !.pc = "unlock",
                                                     !.res = r.result])
    /\ UNCHANGED <<call, ret, crashed, after, lock, hist>>

\* the four cases of oe_mman_unmap: Case1 up to _list_remove, the others
\* whole
TUnmapCases(t) ==
    /\ At(t, "unmap", "cases")
    /\ LET vad == Top(t).vad
           start == Top(t).args[1]
           length == Top(t).args[2]
       IN  IF mman.vads[vad].addr = start
              /\ _end(mman, vad) = Word(start + length)
           THEN /\ mman' = _list_remove(mman, vad)
                /\ stack' = SetTop(t, [Top(t) EXCEPT !.pc = "sync"])
           ELSE LET uc == UnmapCases(mman, vad, start, Word(start + length),
                                     length)
                IN  /\ mman' = uc.mman
                    /\ stack' = SetTop(t,
                          IF uc.ok THEN [Top(t) EXCEPT !.pc = "scrub"]
                          ELSE [Top(t) EXCEPT !.pc = "unlock",
                                              !.res = "OE_FAILURE"])
    /\ UNCHANGED <<call, ret, crashed, after, lock, hist>>

\* Case1 of oe_mman_unmap: _mman_sync_top(mman)
TUnmapSync(t) ==
    /\ At(t, "unmap", "sync")
    /\ mman' = _mman_sync_top(mman)
    /\ stack' = SetTop(t, [Top(t) EXCEPT !.pc = "put"])
    /\ UNCHANGED <<call, ret, crashed, after, lock, hist>>

\* Case1 of oe_mman_unmap: _free_list_put(mman, vad)
TUnmapPut(t) ==
    /\ At(t, "unmap", "put")
    /\ mman' = _free_list_put(mman, Top(t).vad)
    /\ stack' = SetTop(t, [Top(t) EXCEPT !.pc = "scrub"])
    /\ UNCHANGED <<call, ret, crashed, after, lock, hist>>

\* oe_mman_unmap that does not scrub the unmapped memory
TUnmapNoScrub(t) ==
    /\ At(t, "unmap", "scrub")
    /\ stack' = SetTop(t, [Top(t) EXCEPT !.pc = "exit"])
    /\ UNCHANGED <<mman, call, ret, crashed, after, lock, hist>>

\* "If scrubbing is enabled, then scrub the unmapped memory"
TUnmapScrub(t) ==
    /\ At(t, "unmap", "scrub")
    /\ IF mman.scrub /\ Faults(mman, Top(t).args[1], Top(t).args[2])
       THEN crashed' = TRUE /\ UNCHANGED <<mman, stack>>
       ELSE /\ mman' = IF mman.scrub
                       THEN MemSet(mman, Top(t).args[1], Top(t).args[2],
                                   "DD")
                       ELSE mman
            /\ stack' = SetTop(t, [Top(t) EXCEPT !.pc = "exit"])
            /\ UNCHANGED crashed
    /\ UNCHANGED <<call, ret, after, lock, hist>>

\* the exit sanity check of oe_mman_unmap
TUnmapExit(t) ==
    /\ At(t, "unmap", "exit")
    /\ LET r == UnmapExit(_mman_is_sane(mman)) IN
         /\ mman' = r.mman
         /\ stack' = SetTop(t, [Top(t) EXCEPT !.pc = "unlock",
                                              !.res = r.result])
    /\ UNCHANGED <<call, ret, crashed, after, lock, hist>>

\* oe_mman_remap passes its checks and takes the else branch of the grow
\* case: map the new area, copy, unmap the old
RemapTakesMove(m, addr, old_size, new_size, flags) ==
    /\ m.magic = OE_HEAP_MAGIC
    /\ addr # NULL
    /\ _mman_is_sane(m).ok
    /\ RemapParamErr(addr, old_size, new_size, flags) = ""
    /\ _list_find(m, addr) # NULL
    /\ Word(addr + oe_round_up_to_multiple(old_size, OE_PAGE_SIZE))
          <= _end(m, _list_find(m, addr))
    /\ oe_round_up_to_multiple(new_size, OE_PAGE_SIZE)
          > oe_round_up_to_multiple(old_size, OE_PAGE_SIZE)
    /\ ~(/\ _end(m, _list_find(m, addr))
              = Word(addr + oe_round_up_to_multiple(old_size, OE_PAGE_SIZE))
         /\ _get_right_gap(m, _list_find(m, addr))
              >= oe_round_up_to_multiple(new_size, OE_PAGE_SIZE)
                 - oe_round_up_to_multiple(old_size, OE_PAGE_SIZE))

\* oe_mman_remap up to its return, or up to "Map the new area": the call
\* of oe_mman_map
TRemap(t) ==
    /\ At(t, "remap", "body")
    /\ LET a == Top(t).args IN
       IF RemapTakesMove(mman, a[1], a[2], a[3], a[4])
       THEN /\ mman' = _mman_is_sane(_mman_clear_err(mman)).mman
            /\ crashed' = crashed
            /\ stack' =
                 [stack EXCEPT ![t] =
                    Append(SetTop(t, [Top(t) EXCEPT
                                        !.pc = "mapped",
                                        !.vad = _list_find(mman, a[1])])[t],
                           NewFrame("map",
                               <<NULL,
                                 oe_round_up_to_multiple(a[3], OE_PAGE_SIZE),
                                 mman.vads[_list_find(mman, a[1])].prot,
                                 mman.vads[_list_find(mman, a[1])].flags>>,
                               Held(t)))]
       ELSE LET r == oe_mman_remap(mman, a[1], a[2], a[3], a[4]) IN
            /\ mman' = r.mman
            /\ crashed' = r.fault
            /\ stack' = SetTop(t, [Top(t) EXCEPT !.pc = "unlock",
                                                 !.res = r.result])
    /\ UNCHANGED <<call, ret, after, lock, hist>>

\* oe_mman_remap after oe_mman_map returned: "Copy over data from old
\* area" and "Ummap the old area", the call of oe_mman_unmap
TRemapCopy(t) ==
    /\ At(t, "remap", "mapped")
    /\ LET addr == Top(t).args[1]
           old_size == oe_round_up_to_multiple(Top(t).args[2], OE_PAGE_SIZE)
       IN
       IF Top(t).sub = NULL
       THEN /\ mman' = _mman_set_err(mman, "mapping failed")
            /\ crashed' = crashed
            /\ stack' = SetTop(t, [Top(t) EXCEPT !.pc = "unlock",
                                                 !.res = NULL])
       ELSE IF Faults(mman, Top(t).sub, old_size)
               \/ Faults(mman, addr, old_size)
       THEN crashed' = TRUE /\ UNCHANGED <<mman, stack>>
       ELSE /\ mman' = MemCpy(mman, Top(t).sub, addr, old_size)
            /\ crashed' = crashed
            /\ stack' =
                 [stack EXCEPT ![t] =
                    Append(SetTop(t, [Top(t) EXCEPT
                                        !.pc = "unmapped",
                                        !.keep = Top(t).sub])[t],
                           NewFrame("unmap", <<addr, old_size>>, Held(t)))]
    /\ UNCHANGED <<call, ret, after, lock, hist>>

\* oe_mman_remap after oe_mman_unmap returned, up to its return
TRemapDone(t) ==
    /\ At(t, "remap", "unmapped")
    /\ LET r == RemapDone(
                    RemapUnmapped([mman |-> mman, result |-> Top(t).sub,
                                   fault |-> FALSE],
                                  Top(t).keep))
       IN  /\ mman' = r.mman
           /\ stack' = SetTop(t, [Top(t) EXCEPT !.pc = "unlock",
                                                !.res = r.result])
    /\ UNCHANGED <<call, ret, crashed, after, lock, hist>>

\* done: _mman_unlock(mman, &locked); return result.  The result goes to
\* the calling operation, or to the thread
TUnlock(t) ==
    /\ ~crashed
    /\ stack[t] # << >>
    /\ Top(t).pc = "unlock"
    /\ lock' = _mman_unlock(lock, t, Top(t).locked)
    /\ IF Len(stack[t]) = 1
       THEN /\ stack' = [stack EXCEPT ![t] = << >>]
            /\ hist' = [hist EXCEPT ![t] =
                          Append(@, [op |-> Top(t).op, args |-> Top(t).args,
                                     res |-> Top(t).res])]
       ELSE /\ stack' = [stack EXCEPT ![t] =
                           [SubSeq(@, 1, Len(@) - 1) EXCEPT
                              ![Len(@) - 1].sub = Top(t).res]]
            /\ hist' = hist
    /\ UNCHANGED <<mman, call, ret, crashed, after>>

\* oe_mman_is_sane called by a thread: it reads the manager as it is
TIsSane(t) ==
    /\ At(t, "is_sane", "sane")
    /\ mman' = oe_mman_is_sane(mman).mman
    /\ stack' = [stack EXCEPT ![t] = << >>]
    /\ hist' = [hist EXCEPT ![t] =
                  Append(@, [op |-> "is_sane", args |-> << >>,
                             res |-> oe_mman_is_sane(mman).ok])]
    /\ UNCHANGED <<call, ret, crashed, after, lock>>

\* a step of thread t
ThreadStep(t) ==
    \/ TCall(t)
    \/ TLock(t)
    \/ TSbrk(t)
    \/ TBrk(t)
    \/ TMap(t)
    \/ TUnmap(t)
    \/ TUnmapCases(t)
    \/ TUnmapSync(t)
    \/ TUnmapPut(t)
    \/ TUnmapScrub(t)
    \/ TUnmapExit(t)
    \/ TRemap(t)
    \/ TRemapCopy(t)
    \/ TRemapDone(t)
    \/ TUnlock(t)
    \/ TIsSane(t)

NextThreads ==
    \/ StartThreads
    \/ \E t \in Threads : ThreadStep(t)

SpecThreads == Init /\ [][NextThreads]_vars

\* thread t can take a step of the call it is in: every position of a call
\* has a step, and only the step at _mman_lock waits, while another thread
\* holds the mutex
Runnable(t) ==
    /\ ~crashed
    /\ stack[t] # << >>
    /\ Top(t).pc = "lock" => MutexFree(lock, t)

\* the threads are scheduled fairly: a thread that can take a step of the
\* call it is in eventually takes one (weak fairness of the steps of each
\* thread inside a call)
FairThreads ==
    /\ SpecThreads
    /\ \A t \in Threads :
         \/ []<>(~Runnable(t))
         \/ []<><<stack'[t] # stack[t]>>_vars

\* the call c of a thread made on manager m with no other call in progress
Apply(m, c) ==
    CASE c.op = "sbrk" -> oe_mman_sbrk(m, c.args[1])
      [] c.op = "brk" -> oe_mman_brk(m, c.args[1])
      [] c.op = "map" ->
            oe_mman_map(m, c.args[1], c.args[2], c.args[3], c.args[4])
      [] c.op = "unmap" -> oe_mman_unmap(m, c.args[1], c.args[2])
      [] c.op = "remap" ->
            oe_mman_remap(m, c.args[1], c.args[2], c.args[3], c.args[4])
      [] c.op = "is_sane" ->
            [mman |-> oe_mman_is_sane(m).mman,
             result |-> oe_mman_is_sane(m).ok]

\* the calls the threads have completed, from the i-th of thread 1 and the
\* j-th of thread 2 on, made one after the other in some order on manager
\* m, return what the threads got and leave the manager as it is now (the
\* error string, which every call clears, aside)
RECURSIVE SomeOrder(_, _, _)
SomeOrder(m, i, j) ==
    IF i > Len(hist[1]) /\ j > Len(hist[2])
    THEN _mman_clear_err(m) = _mman_clear_err(mman)
    ELSE \/ /\ i <= Len(hist[1])
            /\ Apply(m, hist[1][i]).result = hist[1][i].res
            /\ SomeOrder(Apply(m, hist[1][i]).mman, i + 1, j)
         \/ /\ j <= Len(hist[2])
            /\ Apply(m, hist[2][j]).result = hist[2][j].res
            /\ SomeOrder(Apply(m, hist[2][j]).mman, i, j + 1)

\* C32: with threads calling sbrk, brk, map, unmap, remap and is_sane
\* concurrently on one manager, every call's result and the final state
\* equal those of some sequential order of the calls; a concurrent is_sane
\* never observes an intermediate state of another thread's operation.
\* Stated when no thread is in a call, of the calls completed so far.
C32_Linearizable ==
    /\ mman.initialized = 1
    /\ ~crashed
    /\ \A t \in Threads : stack[t] = << >>
    => SomeOrder(ThreadsHeap(mman.sanity), 1, 1)

\* C33: each of sbrk, brk, map, unmap and remap acquires the manager's
\* mutex on entry and releases it on every return path: when a call
\* returns, its thread holds the mutex as many times as when the call was
\* made, and inside the call once more; the nested map and unmap of
\* remap's move re-acquire and release it without deadlock, and with the
\* threads scheduled fairly every call eventually returns.
C33_LockDiscipline ==
    /\ [][\A t \in Threads :
            /\ stack[t] # << >> /\ Len(stack'[t]) < Len(stack[t])
               /\ Top(t).op # "is_sane"
               => /\ Top(t).locked
                  /\ Held(t) = Top(t).held + 1
                  /\ Held(t)' = Top(t).held
            /\ stack'[t] # << >> /\ Top(t)'.pc \notin {"lock", "sane"}
               => Held(t)' = Top(t)'.held + 1
         ]_vars
    /\ \A t \in Threads : (stack[t] # << >>) ~> (stack[t] = << >>)

\* thread 1 is in the map that its remap calls, holding the mutex twice,
\* while thread 2 waits for the mutex
C33_NestedLockHeld ==
    /\ Len(stack[1]) = 2
    /\ stack[1][1].op = "remap"
    /\ stack[1][2].op = "map"
    /\ lock = [owner |-> 1, count |-> 2]
    /\ stack[2] # << >>
    /\ Top(2).pc = "lock"

C37_CapacityIsPageCount ==
    mman.initialized = 1 =>
        mman.end_vad - 1 = mman.size \div OE_PAGE_SIZE

\* C37 (amended): the pool fills whole pages: start is page aligned, the
\* capacity is (start - base) / sizeof(oe_vad_t), a multiple of the number
\* of descriptors in a page, at least size / OE_PAGE_SIZE and less than one
\* page of descriptors above it
C37_CapacityIsWholePages ==
    mman.initialized = 1 =>
        /\ mman.start % OE_PAGE_SIZE = 0
        /\ (mman.end_vad - 1) * SizeofVad = mman.start - mman.base
        /\ mman.end_vad - 1 >= mman.size \div OE_PAGE_SIZE
        /\ mman.end_vad - 1 - (mman.size \div OE_PAGE_SIZE)
               < OE_PAGE_SIZE \div SizeofVad

\* init of MaxPages pages returned OK with more slots than pages
C37_MoreSlotsThanPages ==
    /\ call.op = "init"
    /\ ret = "OE_OK"
    /\ mman.size = MaxPages * OE_PAGE_SIZE
    /\ mman.end_vad - 1 > MaxPages

(***************************************************************************)
(* Filling the descriptor pool: a caller that maps one page and then       *)
(* repeats one remap call on it.  The variable after is not used here.     *)
(***************************************************************************)
\* oe_mman_map(mman, NULL, OE_PAGE_SIZE, READ | WRITE, ANONYMOUS | PRIVATE)
\* on a manager without regions
PoolMap ==
    /\ Idle
    /\ mman.initialized = 1
    /\ mman.vad_list = NULL
    /\ \E r \in Outcomes(oe_mman_map(mman, NULL, OE_PAGE_SIZE, RW, AP),
                         oe_mman_map([mman EXCEPT !.guard = FALSE],
                                     NULL, OE_PAGE_SIZE, RW, AP)) :
         /\ mman' = r.mman
         /\ call' = [op |-> "map", args |-> <<NULL, OE_PAGE_SIZE, RW, AP>>,
                     was |-> mman.mem]
         /\ ret' = r.result
         /\ crashed' = r.fault
    /\ UNCHANGED after
    /\ UNCHANGED tvars

\* oe_mman_remap(mman, mman->map, -OE_PAGE_SIZE, OE_PAGE_SIZE, MAYMOVE): the
\* top region shrunk from an old size that wraps addr + old_size
PoolRemap ==
    /\ Idle
    /\ mman.initialized = 1
    /\ mman.vad_list # NULL
    /\ LET a == <<mman.map, WordMod - OE_PAGE_SIZE, OE_PAGE_SIZE,
                  {OE_MREMAP_MAYMOVE}>>
       IN  \E r \in Outcomes(oe_mman_remap(mman, a[1], a[2], a[3], a[4]),
                             oe_mman_remap([mman EXCEPT !.guard = FALSE],
                                           a[1], a[2], a[3], a[4])) :
             /\ mman' = r.mman
             /\ call' = [op |-> "remap", args |-> a]
             /\ ret' = r.result
             /\ crashed' = r.fault
    /\ UNCHANGED after
    /\ UNCHANGED tvars

NextPool ==
    \/ DoInit
    \/ Return
    \/ PoolMap
    \/ PoolRemap

SpecPool == Init /\ [][NextPool]_vars

\* C38: in every state reachable from a successful init the number of live
\* regions (the used descriptors that are not on the free list) is strictly
\* below the capacity of the descriptor pool, and no map, unmap or remap
\* takes the "out of VADs" or the "list insert failed" failure path
C38_DescriptorAvailable ==
    [][LET RECURSIVE FreeLen(_, _)
           \* the length of the free list of m from p on
           FreeLen(m, p) ==
               IF p = NULL THEN 0 ELSE 1 + FreeLen(m, m.vads[p].next)
       IN  /\ mman'.initialized = 1 /\ ~crashed'
                => (mman'.next_vad - 1) - FreeLen(mman', mman'.free_vads)
                       < mman'.end_vad - 1
           /\ call'.op \in {"map", "unmap", "remap"}
                => mman'.err \notin {"out of VADs",
                                     "unexpected: list insert failed"}]_vars

====
